---- MODULE Spec2Model ----
(***************************************************************************)
(* The texture compiler's execution engine: the two-slot swap chain, the   *)
(* render-pass scheduler (Pipeline::next_pass / Pipeline::finish) with its *)
(* worker pool, and the drivers that call it (Compiler::run, the legacy    *)
(* Lua front end's run()).                                                 *)
(*                                                                         *)
(* A texel is abstracted to a record [format, v]: v stands for the channel *)
(* bytes of the texel.  A canvas is [width, height, format, data] with one *)
(* v per position (row-major), zero when freshly allocated.  Canvases are  *)
(* identified by the order in which OutputTexture::new created them.       *)
(***************************************************************************)
EXTENDS Integers, Sequences, FiniteSets, TLC

\* ---------------------------------------------------------------- bounds
MaxPasses == 3
MaxThreads == 2
MaxTexels == 2
MaxCalls == 4

\* ------------------------------------------------------- program constants
SWAP_CHAIN_LEN == 2
MaxByte == 255

None == 0

Formats == {"L8", "LA8", "RGBA8", "RGBAF32", "F32"}

FilterKinds == {"noise", "brightness", "gaussian", "greyscale", "resample"}

\* Format of the base texture the resample filter of the model was built with.
BaseFormat == "RGBA8"

Min(a, b) == IF a < b THEN a ELSE b

SeqsUpTo(S, n) == UNION {[1..k -> S] : k \in 0..n}

\* Power-of-two canvas sizes (SwapChain::new rounds both up).
PowersOfTwo == {1, 2, 4, 8}

VARIABLES
    filters,        \* Pipeline.filters (kinds), or the legacy Pipeline.scripts
    n_threads,      \* Pipeline.n_threads
    has_delegate,   \* Pipeline.delegate is Some
    cur_pass,       \* Pipeline.cur_pass
    swap_chain,     \* Pipeline.swap_chain: [chain, index, width, height, format]
    canvases,       \* every OutputTexture ever allocated, by id
    live,           \* ids of the canvases not yet dropped
    render_target,  \* next_pass's local render_target (canvas id, None outside)
    previous,       \* next_pass's local previous (canvas id or None)
    funcs,          \* the ArrayQueue of Function instances of the pass
    submitted,      \* number of tasks sent to the pool in this pass
    running,        \* tasks currently executing: [pos, func]
    results,        \* task results not yet merged: [pos, texel] or [pos, err]
    merged,         \* positions whose result the merge loop has consumed
    processed,      \* PROCESSED_TEXELS
    pc,             \* where the driving thread is
    iter,           \* Compiler::run's loop counter
    calls,          \* number of Pipeline calls made by the free client
    err,            \* the error next_pass returned, "" if none
    output,         \* the canvas finish() returned (None before)
    log,            \* observations of the current pass and of the run
    tex,            \* one OutputTexture at the level of its bytes, and the
                    \* last call made on it
    sizing,         \* one canvas size on its way from the request to the
                    \* buffer and the offsets in it (u32 arithmetic)
    negotiation,    \* one Config and filter list, and what Compiler::run
                    \* makes of them for SwapChain::new
    stock,          \* one stock filter, the frame buffer it is asked a
                    \* Function for, and one texel of that Function
    compiler,       \* a Compiler while filters are added to it: its filter
                    \* list and the result of the last add_filter
    parameter       \* the parameters given to ParameterMap::parse and what
                    \* it returned

\* The state of the scheduler, and the state of the parts studied alone.
pipelineVars == <<filters, n_threads, has_delegate, cur_pass, swap_chain, canvases,
                  live, render_target, previous, funcs, submitted, running, results,
                  merged, processed, pc, iter, calls, err, output, log>>

unitVars == <<tex, sizing, negotiation, stock, compiler, parameter>>

vars == <<pipelineVars, unitVars>>

\* ---------------------------------------------------------------- texture
Total == swap_chain.width * swap_chain.height

Positions == 0 .. (Total - 1)

\* OutputTexture::new: a zeroed buffer.
NewOutputTexture(w, h, f) ==
    [width |-> w, height |-> h, format |-> f, data |-> [i \in 1..(w * h) |-> 0]]

\* Texture::get for an in-range position of a canvas.
TextureGet(c, p) == [format |-> c.format, v |-> c.data[p + 1]]

\* OutputTexture::set: TRUE iff the texel's format is the canvas's.
SetAccepts(c, texel) == texel.format = c.format

TextureSet(c, p, texel) ==
    IF SetAccepts(c, texel) THEN [c EXCEPT !.data[p + 1] = texel.v] ELSE c

\* -------------------------------------------------------------- swap chain
SwapChainNew(w, h, f) ==
    [chain |-> <<None, None>>, index |-> 0, width |-> w, height |-> h, format |-> f]

WrapIndex(i) == IF i >= SWAP_CHAIN_LEN THEN 0 ELSE i

\* A next() that never reuses a pooled canvas.
SwapChainNext_alloc(sc, nalloc) ==
    LET i == IF sc.index >= SWAP_CHAIN_LEN THEN 0 ELSE sc.index
    IN  [sc |-> [sc EXCEPT !.chain[i + 1] = None, !.index = i + 1],
         texture |-> nalloc + 1,
         fresh |-> TRUE]

\* SwapChain::next: the chain after the call, the texture handed out and
\* whether it had to be allocated.  nalloc is the number of canvases so far.
SwapChainNext(sc, nalloc) ==
    LET i == WrapIndex(sc.index)
        taken == sc.chain[i + 1]
    IN  [sc |-> [sc EXCEPT !.chain[i + 1] = None, !.index = i + 1],
         texture |-> IF taken = None THEN nalloc + 1 ELSE taken,
         fresh |-> taken = None]

\* A put_back that stays at the slot it has filled.
SwapChainPutBack_sameSlot(sc, texture) ==
    LET i == IF sc.index >= SWAP_CHAIN_LEN THEN 0 ELSE sc.index
    IN  [sc |-> [sc EXCEPT !.chain[i + 1] = texture, !.index = i],
         overwritten |-> sc.chain[i + 1]]

\* SwapChain::put_back: the chain after the call and the canvas the slot
\* held before (dropped by the assignment), None if it was empty.
SwapChainPutBack(sc, texture) ==
    LET i == WrapIndex(sc.index)
    IN  [sc |-> [sc EXCEPT !.chain[i + 1] = texture, !.index = i + 1],
         overwritten |-> sc.chain[i + 1]]

\* A next() that hands out a recycled canvas cleared.
AfterNext_cleared(cs, r, sc) ==
    IF r.fresh
    THEN Append(cs, NewOutputTexture(sc.width, sc.height, sc.format))
    ELSE [cs EXCEPT ![r.texture] = NewOutputTexture(sc.width, sc.height, sc.format)]

\* The canvas list after a next(): one more canvas if it was allocated.
AfterNext(cs, r, sc) ==
    IF r.fresh THEN Append(cs, NewOutputTexture(sc.width, sc.height, sc.format)) ELSE cs

\* ------------------------------------------------------------------ filters
Ok(f) == [ok |-> TRUE, func |-> f, err |-> ""]
Err(e) == [ok |-> FALSE, func |-> None, err |-> e]

IsFloat(f) == f \in {"RGBAF32", "F32"}

\* A compatibility that accepts equal formats only.
check_format_compatible_same(inf, outf) == inf = outf

\* resample.rs check_format_compatible(inf, outf)
check_format_compatible(inf, outf) ==
    IF inf = outf THEN TRUE
    ELSE CASE outf \in {"L8", "LA8", "RGBA8"} -> inf \in {"L8", "LA8", "RGBA8"}
           [] outf = "RGBAF32" -> inf = "RGBAF32"
           [] outf = "F32" -> inf = "F32"

\* The Function a filter builds keeps the frame buffer's format and, for the
\* filters that read it, the shared handle to the previous canvas.  'id' tells
\* the instances of one pass apart (0 until next_pass queues the instance).
Func(kind, fb) ==
    [kind |-> kind, format |-> fb.format, buffer |-> fb.previous, id |-> 0]

BrightnessNewFunction(fb, cs) ==
    IF fb.previous = None THEN Err("MissingPrevious")
    ELSE IF fb.width # cs[fb.previous].width \/ fb.height # cs[fb.previous].height
         THEN Err("UnsupportedPreviousSize")
         ELSE Ok(Func("brightness", fb))

GaussianNewFunction(fb, cs) ==
    IF fb.previous = None THEN Err("MissingPrevious")
    ELSE IF fb.width # cs[fb.previous].width \/ fb.height # cs[fb.previous].height
         THEN Err("UnsupportedPreviousSize")
    ELSE IF IsFloat(cs[fb.previous].format) THEN Err("UnsupportedPreviousFormat")
    ELSE IF IsFloat(fb.format) THEN Err("UnsupportedFormat")
    ELSE Ok(Func("gaussian", fb))

\* A greyscale that takes any previous canvas.
GreyscaleNewFunction_anyPrevious(fb, cs) ==
    IF fb.previous = None THEN Err("MissingPrevious")
    ELSE IF fb.format # "L8" /\ fb.format # "LA8" THEN Err("UnsupportedFormat")
    ELSE Ok(Func("greyscale", fb))

\* A greyscale that looks at the formats before it asks for the previous
\* canvas.
GreyscaleNewFunction_formatFirst(fb, cs) ==
    IF fb.format # "L8" /\ fb.format # "LA8" THEN Err("UnsupportedFormat")
    ELSE IF fb.previous = None THEN Err("MissingPrevious")
    ELSE IF cs[fb.previous].format # "RGBA8" THEN Err("UnsupportedPreviousFormat")
    ELSE Ok(Func("greyscale", fb))

GreyscaleNewFunction(fb, cs) ==
    IF fb.previous = None THEN Err("MissingPrevious")
    ELSE IF fb.format # "L8" /\ fb.format # "LA8" THEN Err("UnsupportedFormat")
    ELSE IF cs[fb.previous].format # "RGBA8" THEN Err("UnsupportedPreviousFormat")
    ELSE Ok(Func("greyscale", fb))

NoiseNewFunction(fb) == Ok([Func("noise", fb) EXCEPT !.buffer = None])

ResampleNewFunction(fb) ==
    IF ~check_format_compatible(BaseFormat, fb.format) THEN Err("UnsupportedFormat")
    ELSE Ok([Func("resample", fb) EXCEPT !.buffer = None])

\* DynamicFilter::new_function: dispatch on the filter variant.
NewFunction(kind, fb, cs) ==
    CASE kind = "noise" -> NoiseNewFunction(fb)
      [] kind = "brightness" -> BrightnessNewFunction(fb, cs)
      [] kind = "gaussian" -> GaussianNewFunction(fb, cs)
      [] kind = "greyscale" -> GreyscaleNewFunction(fb, cs)
      [] kind = "resample" -> ResampleNewFunction(fb)

\* Perlin noise at a position, abstracted to a fixed value per position.
NoiseValue(p) == (40 + 85 * p) % (MaxByte + 1)

\* The base texture's texel at a position, abstracted likewise.
BaseValue(p) == (200 + 31 * p) % (MaxByte + 1)

\* brightness.rs Func::apply with brightness = 1.5: scale, clamp to 1.0.
Brighten(v) == Min(MaxByte, (3 * v) \div 2)

\* greyscale.rs luma of a grey (r = g = b = v) texel: 0.859 v + 16, clamped.
Luma(v) == Min(MaxByte, (859 * v) \div 1000 + 16)

\* DynamicFunction::apply(pos): a function of the position and of the
\* previous canvas only.
Apply(f, p, cs) ==
    CASE f.kind = "noise" -> [format |-> f.format, v |-> NoiseValue(p)]
      [] f.kind = "resample" -> [format |-> f.format, v |-> BaseValue(p)]
      [] f.kind = "brightness" ->
            [format |-> f.format, v |-> Brighten(TextureGet(cs[f.buffer], p).v)]
      [] f.kind = "gaussian" ->
            [format |-> "RGBA8", v |-> TextureGet(cs[f.buffer], p).v]
      [] f.kind = "greyscale" ->
            [format |-> f.format, v |-> Luma(TextureGet(cs[f.buffer], p).v)]

\* ------------------------------------------------------------ the pipeline
InitLog ==
    [acquired |-> 0, released |-> 0, pass |-> 0, fbs |-> <<>>, before |-> <<>>,
     start_pass |-> 0, start_texel |-> 0, end_texel |-> 0, applies |-> 0,
     writes |-> 0, last_target |-> None, last_data |-> <<>>, drained |-> <<>>,
     call |-> "", fault |-> "none", unwrapped |-> 0, dropped |-> 0,
     pass_args |-> <<>>, texels |-> {}]

\* Pipeline::new around SwapChain::new, for the configurations of the model.
PipelineInit(fs) ==
    /\ tex = None
    /\ sizing = None
    /\ negotiation = None
    /\ stock = None
    /\ compiler = None
    /\ parameter = None
    /\ filters \in fs
    /\ n_threads \in 1..MaxThreads
    /\ has_delegate \in BOOLEAN
    /\ \E w \in PowersOfTwo, h \in PowersOfTwo, f \in Formats :
          /\ w * h <= MaxTexels
          /\ swap_chain = SwapChainNew(w, h, f)
    /\ cur_pass = 0
    /\ canvases = <<>>
    /\ live = {}
    /\ render_target = None
    /\ previous = None
    /\ funcs = <<>>
    /\ submitted = 0
    /\ running = {}
    /\ results = {}
    /\ merged = {}
    /\ processed = 0
    /\ pc = "idle"
    /\ iter = 0
    /\ calls = 0
    /\ err = ""
    /\ output = None
    /\ log = InitLog

\* The frame buffer next_pass describes to new_function.
FrameBuffer(prev, sc) ==
    [previous |-> prev, width |-> sc.width, height |-> sc.height, format |-> sc.format]

\* A first pass that is given a previous canvas too.
WantsPrevious_always(pass) == TRUE

\* Which canvas next_pass shares as 'previous': none in the first pass.
WantsPrevious(pass) == pass # 0

\* The assertion at the top of next_pass.
NextPassAllowed(n, len) == n < len

\* next_pass up to the construction of the worker pool: the bounds assertion,
\* the canvases taken from the swap chain, the progress counter reset.  The
\* driving thread goes on at 'then': the Function loop, or (legacy pipeline,
\* which has none) the submission loop.
EnterNextPass(then) ==
    IF ~NextPassAllowed(cur_pass, Len(filters))
    THEN /\ pc' = "panic"
         /\ log' = [log EXCEPT !.call = "next_pass"]
         /\ UNCHANGED <<swap_chain, canvases, live, render_target, previous, funcs,
                        submitted, running, results, merged, processed, err>>
    ELSE LET r1 == SwapChainNext(swap_chain, Len(canvases))
             cs1 == AfterNext(canvases, r1, swap_chain)
             r2 == SwapChainNext(r1.sc, Len(cs1))
             cs2 == AfterNext(cs1, r2, swap_chain)
             two == WantsPrevious(cur_pass)
         IN  /\ render_target' = r1.texture
             /\ previous' = IF two THEN r2.texture ELSE None
             /\ swap_chain' = IF two THEN r2.sc ELSE r1.sc
             /\ canvases' = IF two THEN cs2 ELSE cs1
             /\ live' = live \cup {r1.texture} \cup (IF two THEN {r2.texture} ELSE {})
             /\ funcs' = <<>>
             /\ submitted' = 0
             /\ running' = {}
             /\ results' = {}
             /\ merged' = {}
             /\ processed' = 0
             /\ err' = ""
             /\ pc' = then
             /\ log' = [log EXCEPT !.call = "next_pass",
                                   !.acquired = @ + (IF two THEN 2 ELSE 1),
                                   !.pass = cur_pass,
                                   !.fbs = <<>>,
                                   !.before = IF two THEN cs2 ELSE cs1,
                                   !.start_pass = 0, !.start_texel = 0,
                                   !.end_texel = 0, !.applies = 0, !.writes = 0,
                                   !.dropped = 0, !.pass_args = <<>>, !.texels = {}]

\* A loop that builds one Function fewer than there are workers.
FunctionsToBuild_oneShort(n) == n - 1

\* How many Functions next_pass builds and the capacity of their queue.
FunctionsToBuild(n) == n

\* The loop in a next_pass that increments the pass counter before it builds
\* the Functions: an error then leaves the counter advanced.
NewFunctionStep_counted ==
    /\ pc = "new_function"
    /\ Len(funcs) < FunctionsToBuild(n_threads)
    /\ LET fb == [previous |-> previous, width |-> swap_chain.width,
                  height |-> swap_chain.height, format |-> swap_chain.format]
           r == NewFunction(filters[cur_pass + 1], fb, canvases)
       IN  /\ log' = [log EXCEPT !.fbs = Append(@, fb.previous)]
           /\ IF r.ok
              THEN /\ funcs' = Append(funcs, [r.func EXCEPT !.id = Len(funcs) + 1])
                   /\ UNCHANGED <<pc, err, live, render_target, previous, cur_pass>>
              ELSE /\ funcs' = <<>>
                   /\ pc' = "returned_err"
                   /\ err' = r.err
                   /\ live' = live \ {render_target, previous}
                   /\ render_target' = None
                   /\ previous' = None
                   /\ cur_pass' = cur_pass + 1
    /\ UNCHANGED <<unitVars, filters, n_threads, has_delegate, swap_chain, canvases,
                   submitted, running, results, merged, processed, iter, calls, output>>

\* The loop with the observer told about the pass before the first Function
\* is built.
NewFunctionStep_hoisted ==
    /\ pc = "new_function"
    /\ Len(funcs) < FunctionsToBuild(n_threads)
    /\ LET fb == [previous |-> previous, width |-> swap_chain.width,
                  height |-> swap_chain.height, format |-> swap_chain.format]
           r == NewFunction(filters[cur_pass + 1], fb, canvases)
       IN  /\ log' = [log EXCEPT !.fbs = Append(@, fb.previous),
                                 !.start_pass = IF has_delegate THEN 1 ELSE 0]
           /\ IF r.ok
              THEN /\ funcs' = Append(funcs, [r.func EXCEPT !.id = Len(funcs) + 1])
                   /\ UNCHANGED <<pc, err, live, render_target, previous>>
              ELSE /\ funcs' = <<>>
                   /\ pc' = "returned_err"
                   /\ err' = r.err
                   /\ live' = live \ {render_target, previous}
                   /\ render_target' = None
                   /\ previous' = None
    /\ UNCHANGED <<unitVars, filters, n_threads, has_delegate, cur_pass, swap_chain, canvases,
                   submitted, running, results, merged, processed, iter, calls, output>>

\* One iteration of the loop that fills the Function queue.  An error leaves
\* next_pass at once through '?': its locals (both canvases, the pool, the
\* queue) are dropped.
NewFunctionStep ==
    /\ pc = "new_function"
    /\ Len(funcs) < FunctionsToBuild(n_threads)
    /\ LET fb == FrameBuffer(previous, swap_chain)
           r == NewFunction(filters[cur_pass + 1], fb, canvases)
       IN  /\ log' = [log EXCEPT !.fbs = Append(@, fb.previous)]
           /\ IF r.ok
              THEN /\ funcs' = Append(funcs, [r.func EXCEPT !.id = Len(funcs) + 1])
                   /\ UNCHANGED <<pc, err, live, render_target, previous>>
              ELSE /\ funcs' = <<>>
                   /\ pc' = "returned_err"
                   /\ err' = r.err
                   /\ live' = live \ {render_target, previous}
                   /\ render_target' = None
                   /\ previous' = None
    /\ UNCHANGED <<unitVars, filters, n_threads, has_delegate, cur_pass, swap_chain, canvases,
                   submitted, running, results, merged, processed, iter, calls, output>>

\* delegate.on_start_render_pass(self.cur_pass, total), if there is a
\* delegate: the call is counted and its arguments kept.
OnStartRenderPass(l, pass, total) ==
    IF has_delegate
    THEN [l EXCEPT !.start_pass = @ + 1, !.pass_args = <<pass, total>>]
    ELSE l

\* An observer that is told twice that a texel starts.
OnStartTexel_twice(l, p) ==
    IF has_delegate THEN [l EXCEPT !.start_texel = @ + 2, !.texels = @ \cup {p}] ELSE l

\* delegate.on_start_texel(x, y), if the task has a delegate: the call is
\* counted and its position kept.
OnStartTexel(l, p) ==
    IF has_delegate THEN [l EXCEPT !.start_texel = @ + 1, !.texels = @ \cup {p}] ELSE l

\* The queue is full: the observer is told the pass starts.
StartRenderPass ==
    /\ pc = "new_function"
    /\ Len(funcs) = FunctionsToBuild(n_threads)
    /\ pc' = "pass"
    /\ log' = OnStartRenderPass(log, cur_pass, Total)
    /\ UNCHANGED <<unitVars, filters, n_threads, has_delegate, cur_pass, swap_chain, canvases,
                   live, render_target, previous, funcs, submitted, running, results,
                   merged, processed, iter, calls, err, output>>

\* pool.send of the next position, in row-major order.
Send ==
    /\ pc = "pass"
    /\ submitted < Total
    /\ submitted' = submitted + 1
    /\ UNCHANGED <<unitVars, filters, n_threads, has_delegate, cur_pass, swap_chain, canvases,
                   live, render_target, previous, funcs, running, results, merged,
                   processed, pc, iter, calls, err, output, log>>

Started == {t.pos : t \in running} \cup {r.pos : r \in results} \cup merged

\* Task::run, first half: a worker (the pool runs at most n_threads at once)
\* picks up a submitted task, tells the observer and pops a Function from the
\* queue; the pop is unwrapped, so an empty queue is a panic.
TaskStart(p) ==
    /\ pc = "pass"
    /\ p < submitted
    /\ p \notin Started
    /\ Cardinality(running) < n_threads
    /\ IF funcs # <<>>
       THEN /\ running' = running \cup {[pos |-> p, func |-> Head(funcs)]}
            /\ funcs' = Tail(funcs)
            /\ pc' = pc
            /\ log' = OnStartTexel(log, p)
       ELSE /\ pc' = "panic"
            /\ log' = [OnStartTexel(log, p) EXCEPT !.fault = "pop"]
            /\ UNCHANGED <<running, funcs>>
    /\ UNCHANGED <<unitVars, filters, n_threads, has_delegate, cur_pass, swap_chain, canvases,
                   live, render_target, previous, submitted, results, merged,
                   processed, iter, calls, err, output>>

\* A Function whose result also depends on how many texels were processed
\* before it (state shared between the workers).
TaskTexel_counter(t, cs) ==
    [Apply(t.func, t.pos, cs) EXCEPT !.v = (@ + processed) % (MaxByte + 1)]

\* The texel a task computes for its position.
TaskTexel(t, cs) == Apply(t.func, t.pos, cs)

\* A task that writes its texel to the render target itself instead of
\* handing it to the driving thread.
TaskFinish_writes(t) ==
    /\ pc = "pass"
    /\ t \in running
    /\ running' = running \ {t}
    /\ funcs' = Append(funcs, t.func)
    /\ merged' = merged \cup {t.pos}
    /\ canvases' = [canvases EXCEPT ![render_target] =
                      TextureSet(@, t.pos, Apply(t.func, t.pos, canvases))]
    /\ processed' = processed + 1
    /\ log' = [log EXCEPT !.applies = @ + 1,
                          !.end_texel = @ + (IF has_delegate THEN 1 ELSE 0)]
    /\ UNCHANGED <<unitVars, filters, n_threads, has_delegate, cur_pass, swap_chain, live,
                   render_target, previous, submitted, results, pc, iter, calls,
                   err, output>>

\* Task::run, second half: apply, push the Function back, tell the observer,
\* count the texel and hand the result to the pool.
TaskFinish(t) ==
    /\ pc = "pass"
    /\ t \in running
    /\ IF Len(funcs) < FunctionsToBuild(n_threads)
       THEN /\ running' = running \ {t}
            /\ funcs' = Append(funcs, t.func)
            /\ results' = results \cup
                              {[pos |-> t.pos, texel |-> TaskTexel(t, canvases)]}
            /\ processed' = processed + 1
            /\ log' = [log EXCEPT !.applies = @ + 1,
                                  !.end_texel = @ + (IF has_delegate THEN 1 ELSE 0)]
            /\ pc' = pc
       ELSE /\ pc' = "panic"
            /\ log' = [log EXCEPT !.applies = @ + 1, !.fault = "push"]
            /\ UNCHANGED <<running, funcs, results, processed>>
    /\ UNCHANGED <<unitVars, filters, n_threads, has_delegate, cur_pass, swap_chain, canvases,
                   live, render_target, previous, submitted, merged, iter, calls,
                   err, output>>

\* A merge loop that writes every result at the first position.
MergeTarget_first(r) == 0

\* Where the merge loop writes a result.
MergeTarget(r) == r.pos

\* pool.reduce() starts yielding results: every task has been sent and the
\* worker pool has drained (no task is executing or waiting any more).
ReduceReady == submitted = Total /\ running = {} /\ Started = Positions

\* A merge loop that fails the pass on a texel the render target refuses.
Merge_strict(r) ==
    /\ pc = "pass"
    /\ ReduceReady
    /\ r \in results
    /\ results' = results \ {r}
    /\ merged' = merged \cup {r.pos}
    /\ canvases' = [canvases EXCEPT
                      ![render_target] = TextureSet(@, MergeTarget(r), r.texel)]
    /\ log' = [log EXCEPT !.writes = @ + 1]
    /\ IF SetAccepts(canvases[render_target], r.texel)
       THEN UNCHANGED <<pc, err>>
       ELSE pc' = "returned_err" /\ err' = "FormatMismatch"
    /\ UNCHANGED <<unitVars, filters, n_threads, has_delegate, cur_pass, swap_chain, live,
                   render_target, previous, funcs, submitted, running, processed,
                   iter, calls, output>>

\* One iteration of the merge loop over pool.reduce(): the driving thread
\* writes one result to the render target (a format mismatch is only warned).
Merge(r) ==
    /\ pc = "pass"
    /\ ReduceReady
    /\ r \in results
    /\ results' = results \ {r}
    /\ merged' = merged \cup {r.pos}
    /\ canvases' = [canvases EXCEPT
                      ![render_target] = TextureSet(@, MergeTarget(r), r.texel)]
    /\ log' = [log EXCEPT
                  !.writes = @ + 1,
                  !.dropped = @ + (IF SetAccepts(canvases[render_target], r.texel)
                                   THEN 0 ELSE 1)]
    /\ UNCHANGED <<unitVars, filters, n_threads, has_delegate, cur_pass, swap_chain, live,
                   render_target, previous, funcs, submitted, running, processed, pc,
                   iter, calls, err, output>>

\* The render target given back before the previous canvas.
PutBackOrder_swapped(prev, rt) == IF prev = None THEN <<rt>> ELSE <<rt, prev>>

\* The canvases next_pass gives back, in the order of its put_back calls.
PutBackOrder(prev, rt) == IF prev = None THEN <<rt>> ELSE <<prev, rt>>

RECURSIVE PutBackAll(_, _)
PutBackAll(sc, textures) ==
    IF textures = <<>> THEN [sc |-> sc, dropped |-> {}]
    ELSE LET r == SwapChainPutBack(sc, Head(textures))
             rest == PutBackAll(r.sc, Tail(textures))
         IN  [sc |-> rest.sc, dropped |-> (rest.dropped \cup {r.overwritten}) \ {None}]

\* The pass counter after a successful pass.
AdvancePass(n) == n + 1

\* Task closures that still exist: each was given a clone of the queue's
\* handle when it was sent and is consumed when it has run.
TaskHandles == submitted - processed

\* A reclaim placed inside the block that owns the Function queue.
QueueReachable_inBlock(tasks) == TRUE

\* Whether the Function queue still exists where next_pass reclaims the
\* previous canvas: the block that owned the queue's handle has ended, so
\* only a task closure can keep the queue alive.
QueueReachable(tasks) == tasks > 0

\* Arc::strong_count of the previous canvas where next_pass reclaims it: the
\* driving thread's handle, the handles of the queued Functions while their
\* queue exists, and those of the Functions borrowed by running tasks.
StrongCount(prev, fs, rn, tasks) ==
    1 + (IF QueueReachable(tasks)
         THEN Cardinality({i \in 1..Len(fs) : fs[i].buffer = prev})
         ELSE 0)
      + Cardinality({t \in rn : t.func.buffer = prev})

\* The merge loop is over: the Function queue goes out of scope, the pass
\* counter advances, the previous canvas is reclaimed (a panic unless the
\* driving thread is its only owner) and the canvases go back to the swap
\* chain, the previous one first.
NextPassEnd ==
    /\ pc = "pass"
    /\ submitted = Total
    /\ merged = Positions
    /\ cur_pass' = AdvancePass(cur_pass)
    /\ IF previous # None /\ StrongCount(previous, funcs, running, TaskHandles) # 1
       THEN /\ pc' = "panic"
            /\ log' = [log EXCEPT !.fault = "try_unwrap"]
            /\ UNCHANGED <<swap_chain, live, render_target, previous, funcs>>
       ELSE /\ LET back == PutBackAll(swap_chain, PutBackOrder(previous, render_target))
               IN  /\ swap_chain' = back.sc
                   /\ live' = live \ back.dropped
                   /\ log' = [log EXCEPT
                         !.released = @ + Len(PutBackOrder(previous, render_target)),
                         !.last_target = render_target,
                         !.last_data = canvases[render_target].data,
                         !.unwrapped = @ + (IF previous # None THEN 1 ELSE 0)]
            /\ render_target' = None
            /\ previous' = None
            /\ funcs' = <<>>
            /\ pc' = "idle"
    /\ UNCHANGED <<unitVars, filters, n_threads, has_delegate, canvases, submitted, running,
                   results, merged, processed, iter, calls, err, output>>

\* A finish() without its assertion.
FinishAllowed_unchecked(n) == TRUE

\* Whether finish() accepts the pipeline: at least one pass ran.
FinishAllowed(n) == n > 0

\* Which of the canvases finish() drains it returns.
FinishPick(first, second) == second

\* Pipeline::finish, first statement: the assertion, then a next() whose
\* canvas is a temporary.
EnterFinish ==
    IF ~FinishAllowed(cur_pass)
    THEN /\ pc' = "panic"
         /\ log' = [log EXCEPT !.call = "finish"]
         /\ UNCHANGED <<swap_chain, canvases, live>>
    ELSE LET r1 == SwapChainNext(swap_chain, Len(canvases))
         IN  /\ swap_chain' = r1.sc
             /\ canvases' = AfterNext(canvases, r1, swap_chain)
             /\ live' = live \cup {r1.texture}
             /\ pc' = "finish"
             /\ log' = [log EXCEPT !.call = "finish", !.acquired = @ + 1,
                                   !.drained = <<r1.texture>>]

\* Pipeline::finish, second statement: the temporary is dropped and a second
\* next() gives the canvas that is returned.
FinishReturn ==
    /\ pc = "finish"
    /\ LET first == log.drained[1]
           r2 == SwapChainNext(swap_chain, Len(canvases))
           out == FinishPick(first, r2.texture)
       IN  /\ swap_chain' = r2.sc
           /\ canvases' = AfterNext(canvases, r2, swap_chain)
           /\ output' = out
           /\ live' = (live \cup {r2.texture}) \ ({first, r2.texture} \ {out})
           /\ log' = [log EXCEPT !.acquired = @ + 1, !.drained = Append(@, r2.texture)]
    /\ pc' = "finished"
    /\ UNCHANGED <<unitVars, filters, n_threads, has_delegate, cur_pass, render_target, previous,
                   funcs, submitted, running, results, merged, processed, iter, calls,
                   err>>

\* ------------------------------------------------------------ Compiler::run
\* One iteration of 'for _ in 0..pass_count': the call of next_pass.
RunNextPass ==
    /\ pc = "idle"
    /\ iter < Len(filters)
    /\ iter' = iter + 1
    /\ EnterNextPass("new_function")
    /\ UNCHANGED <<unitVars, filters, n_threads, has_delegate, cur_pass, calls, output>>

\* The '?' after next_pass: run returns the error, the pipeline is dropped.
RunPropagate ==
    /\ pc = "returned_err"
    /\ pc' = "run_err"
    /\ UNCHANGED <<unitVars, filters, n_threads, has_delegate, cur_pass, swap_chain, canvases,
                   live, render_target, previous, funcs, submitted, running, results,
                   merged, processed, iter, calls, err, output, log>>

\* After the loop: the call of finish.
RunFinish ==
    /\ pc = "idle"
    /\ iter = Len(filters)
    /\ EnterFinish
    /\ UNCHANGED <<unitVars, filters, n_threads, has_delegate, cur_pass, render_target, previous,
                   funcs, submitted, running, results, merged, processed, iter, calls,
                   err, output>>

Init == PipelineInit(SeqsUpTo(FilterKinds, MaxPasses))

Next ==
    \/ RunNextPass
    \/ NewFunctionStep
    \/ StartRenderPass
    \/ Send
    \/ \E p \in Positions : TaskStart(p)
    \/ \E t \in running : TaskFinish(t)
    \/ \E r \in results : Merge(r)
    \/ NextPassEnd
    \/ RunPropagate
    \/ RunFinish
    \/ FinishReturn

Spec == Init /\ [][Next]_vars

\* ------------------------------------------------- any caller of the Pipeline
\* A caller that is free to call next_pass whenever the previous call has
\* returned, whatever it returned and whatever the pass counter is.
ApiNextPass ==
    /\ pc \in {"idle", "returned_err"}
    /\ calls < MaxCalls
    /\ calls' = calls + 1
    /\ EnterNextPass("new_function")
    /\ UNCHANGED <<unitVars, filters, n_threads, has_delegate, cur_pass, iter, output>>

\* The same caller calling finish (which consumes the pipeline).
ApiFinish ==
    /\ pc \in {"idle", "returned_err"}
    /\ calls < MaxCalls
    /\ calls' = calls + 1
    /\ EnterFinish
    /\ UNCHANGED <<unitVars, filters, n_threads, has_delegate, cur_pass, render_target, previous,
                   funcs, submitted, running, results, merged, processed, iter, err,
                   output>>

NextApi ==
    \/ ApiNextPass
    \/ ApiFinish
    \/ NewFunctionStep
    \/ StartRenderPass
    \/ Send
    \/ \E p \in Positions : TaskStart(p)
    \/ \E t \in running : TaskFinish(t)
    \/ \E r \in results : Merge(r)
    \/ NextPassEnd
    \/ FinishReturn

SpecApi == Init /\ [][NextApi]_vars

\* ------------------------------------------------- the legacy Lua pipeline
\* The scripts of the model: one whose main returns a texel everywhere, one
\* whose main raises an error at position (0, 0), one that cannot be loaded.
ScriptKinds == {"lua_ok", "lua_fail", "lua_bad"}

\* The payload of a task Result that is an Err: no texel.
NoTexel == [format |-> "none", v |-> 0]

\* init_lua_engine when the queue is empty: loading the script may fail.
LuaEngineNew(script, fb) ==
    IF script = "lua_bad" THEN Err("script error")
    ELSE Ok([kind |-> script, format |-> fb.format, buffer |-> fb.previous])

\* The script's main(x, y): a texel of the buffer format, or an error.
LuaMain(engine, p, cs) ==
    IF engine.kind = "lua_fail" /\ p = 0 THEN Err("script error")
    ELSE Ok([format |-> engine.format,
             v |-> IF engine.buffer = None THEN NoiseValue(p)
                   ELSE Brighten(TextureGet(cs[engine.buffer], p).v)])

\* A task that builds an engine of its own whatever the queue holds.
LegacyTaskStart_eager(p) ==
    /\ pc = "pass"
    /\ p < submitted
    /\ p \notin Started
    /\ Cardinality(running) < n_threads
    /\ LET e == LuaEngineNew(filters[cur_pass + 1], FrameBuffer(previous, swap_chain))
       IN  IF e.ok
           THEN /\ running' = running \cup {[pos |-> p, func |-> e.func]}
                /\ UNCHANGED results
           ELSE /\ results' = results \cup {[pos |-> p, ok |-> FALSE, texel |-> NoTexel]}
                /\ UNCHANGED running
    /\ UNCHANGED <<unitVars, filters, n_threads, has_delegate, cur_pass, swap_chain, canvases,
                   live, render_target, previous, funcs, submitted, merged, processed, pc,
                   iter, calls, err, output, log>>

\* legacy Task::run, first half: take an engine from the queue or build one;
\* a failing build ends the task with the error.
LegacyTaskStart(p) ==
    /\ pc = "pass"
    /\ p < submitted
    /\ p \notin Started
    /\ Cardinality(running) < n_threads
    /\ LET e == IF funcs # <<>> THEN Ok(Head(funcs))
                ELSE LuaEngineNew(filters[cur_pass + 1],
                                  FrameBuffer(previous, swap_chain))
       IN  IF e.ok
           THEN /\ running' = running \cup {[pos |-> p, func |-> e.func]}
                /\ funcs' = IF funcs # <<>> THEN Tail(funcs) ELSE funcs
                /\ UNCHANGED results
           ELSE /\ results' = results \cup {[pos |-> p, ok |-> FALSE, texel |-> NoTexel]}
                /\ UNCHANGED <<running, funcs>>
    /\ UNCHANGED <<unitVars, filters, n_threads, has_delegate, cur_pass, swap_chain, canvases,
                   live, render_target, previous, submitted, merged, processed, pc,
                   iter, calls, err, output, log>>

\* legacy Task::run, second half: call main, push the engine back (the push
\* is unwrapped: a full queue is a panic), count the texel if main succeeded,
\* hand the Result to the pool.
LegacyTaskFinish(t) ==
    /\ pc = "pass"
    /\ t \in running
    /\ IF Len(funcs) < n_threads
       THEN /\ LET res == LuaMain(t.func, t.pos, canvases)
               IN  /\ results' = results \cup {[pos |-> t.pos, ok |-> res.ok,
                                             texel |-> IF res.ok THEN res.func ELSE NoTexel]}
                   /\ processed' = IF res.ok THEN processed + 1 ELSE processed
            /\ running' = running \ {t}
            /\ funcs' = Append(funcs, t.func)
            /\ log' = [log EXCEPT !.applies = @ + 1]
            /\ pc' = pc
       ELSE /\ pc' = "panic"
            /\ log' = [log EXCEPT !.applies = @ + 1, !.fault = "push"]
            /\ UNCHANGED <<results, processed, running, funcs>>
    /\ UNCHANGED <<unitVars, filters, n_threads, has_delegate, cur_pass, swap_chain, canvases,
                   live, render_target, previous, submitted, merged, iter, calls,
                   err, output>>

\* One iteration of the legacy merge loop: 'task?' returns the first error
\* it meets (dropping next_pass's locals), otherwise the texel is written.
LegacyMerge(r) ==
    /\ pc = "pass"
    /\ ReduceReady
    /\ r \in results
    /\ results' = results \ {r}
    /\ IF r.ok
       THEN /\ merged' = merged \cup {r.pos}
            /\ canvases' = [canvases EXCEPT
                              ![render_target] = TextureSet(@, r.pos, r.texel)]
            /\ log' = [log EXCEPT !.writes = @ + 1]
            /\ UNCHANGED <<pc, err, live, render_target, previous>>
       ELSE /\ pc' = "returned_err"
            /\ err' = "script error"
            /\ live' = live \ {render_target, previous}
            /\ render_target' = None
            /\ previous' = None
            /\ UNCHANGED <<merged, canvases, log>>
    /\ UNCHANGED <<unitVars, filters, n_threads, has_delegate, cur_pass, swap_chain, funcs,
                   submitted, running, processed, iter, calls, output>>

\* legacy run(): one iteration of its loop over the scripts.
LegacyRunNextPass ==
    /\ pc = "idle"
    /\ iter < Len(filters)
    /\ iter' = iter + 1
    /\ EnterNextPass("pass")
    /\ UNCHANGED <<unitVars, filters, n_threads, has_delegate, cur_pass, calls, output>>

InitLegacy == PipelineInit(SeqsUpTo(ScriptKinds, MaxPasses)) /\ ~has_delegate

NextLegacy ==
    \/ LegacyRunNextPass
    \/ Send
    \/ \E p \in Positions : LegacyTaskStart(p)
    \/ \E t \in running : LegacyTaskFinish(t)
    \/ \E r \in results : LegacyMerge(r)
    \/ NextPassEnd
    \/ RunPropagate
    \/ RunFinish
    \/ FinishReturn

SpecLegacy == InitLegacy /\ [][NextLegacy]_vars

\* ----------------------------------------------------------- u32 arithmetic
\* A u32 is kept as its four bytes, least significant first, and an operation
\* yields the wrapped value together with whether it overflowed (a panic in a
\* debug build, the wrapped value in a release build).
U32(n) ==
    <<n % 256, (n \div 256) % 256, (n \div 65536) % 256, (n \div 16777216) % 256>>

\* The integer a u32 below 2^31 stands for.
IntOf(a) == a[1] + 256 * a[2] + 65536 * a[3] + 16777216 * a[4]

U32Lt(a, b) == \E i \in 1..4 : a[i] < b[i] /\ \A j \in (i + 1)..4 : a[j] = b[j]

U32Le(a, b) == a = b \/ U32Lt(a, b)

\* a + b
U32Add(a, b) ==
    LET s1 == a[1] + b[1]
        s2 == a[2] + b[2] + s1 \div 256
        s3 == a[3] + b[3] + s2 \div 256
        s4 == a[4] + b[4] + s3 \div 256
    IN  [v |-> <<s1 % 256, s2 % 256, s3 % 256, s4 % 256>>, overflow |-> s4 >= 256]

\* a * b
U32Mul(a, b) ==
    LET t1 == a[1] * b[1]
        t2 == a[1] * b[2] + a[2] * b[1] + t1 \div 256
        t3 == a[1] * b[3] + a[2] * b[2] + a[3] * b[1] + t2 \div 256
        t4 == a[1] * b[4] + a[2] * b[3] + a[3] * b[2] + a[4] * b[1] + t3 \div 256
        high == a[2] * b[4] + a[3] * b[3] + a[4] * b[2]
                  + a[3] * b[4] + a[4] * b[3] + a[4] * b[4]
    IN  [v |-> <<t1 % 256, t2 % 256, t3 % 256, t4 % 256>>,
         overflow |-> t4 >= 256 \/ high > 0]

\* Option<T>
Some(v) == [some |-> TRUE, v |-> v]
Nothing(v) == [some |-> FALSE, v |-> v]

\* -------------------------------------------------- a texture and its bytes
Crates == {"compiler", "legacy"}

\* Format::texel_size
TexelSize(f) ==
    CASE f = "L8" -> 1
      [] f = "LA8" -> 2
      [] f = "RGBA8" -> 4
      [] f = "RGBAF32" -> 16
      [] f = "F32" -> 4

\* The length OutputTexture::new asks vec! for: width * height * texel_size.
BufferLen(width, height, format) ==
    LET wh == U32Mul(width, height)
        whs == U32Mul(wh.v, U32(TexelSize(format)))
    IN  [v |-> whs.v, overflow |-> wh.overflow \/ whs.overflow]

\* OutputTexture::base_offset: (y * width * size) + (x * size), or None.
BaseOffset(width, height, format, x, y) ==
    IF ~U32Lt(x, width) \/ ~U32Lt(y, height)
    THEN [some |-> FALSE, v |-> U32(0), overflow |-> FALSE]
    ELSE LET size == U32(TexelSize(format))
             yw == U32Mul(y, width)
             yws == U32Mul(yw.v, size)
             xs == U32Mul(x, size)
             sum == U32Add(yws.v, xs.v)
         IN  [some |-> TRUE, v |-> sum.v,
              overflow |-> yw.overflow \/ yws.overflow \/ xs.overflow \/ sum.overflow]

\* A texel with its channels: bytes for the 8 bit formats, floats for the
\* others.  An f32 is kept as its sign, exponent and fraction fields.
MkTexel(f, bytes, floats) == [format |-> f, u8 |-> bytes, f32 |-> floats]

F32One == [sign |-> 0, exp |-> 127, frac |-> 0]
F32NegZero == [sign |-> 1, exp |-> 0, frac |-> 0]
F32NaN == [sign |-> 0, exp |-> 255, frac |-> 4194305]
F32Odd == [sign |-> 1, exp |-> 129, frac |-> 1193046]

\* Texel::format is the variant's name.
TestTexels ==
    {MkTexel("L8", <<7>>, <<>>),
     MkTexel("LA8", <<7, 9>>, <<>>), MkTexel("LA8", <<255, 0>>, <<>>),
     MkTexel("RGBA8", <<1, 2, 3, 255>>, <<>>),
     MkTexel("F32", <<>>, <<F32Odd>>),
     MkTexel("RGBAF32", <<>>, <<F32One, F32NegZero, F32NaN, F32Odd>>)}

\* LittleEndian::write_f32: the four bytes of f.to_bits(), lowest first.
WriteF32(f) ==
    <<f.frac % 256, (f.frac \div 256) % 256,
      (f.exp % 2) * 128 + f.frac \div 65536, f.sign * 128 + f.exp \div 2>>

\* LittleEndian::read_f32
ReadF32(b) ==
    [sign |-> b[4] \div 128,
     exp |-> (b[4] % 128) * 2 + b[3] \div 128,
     frac |-> (b[3] % 128) * 65536 + b[2] * 256 + b[1]]

\* The four bytes write_f32 puts at buf[at..], as single byte writes.
F32Writes(at, f) == [i \in 1..4 |-> <<at + i - 1, WriteF32(f)[i]>>]

\* A set that stores the first channel of a texel of another 8 bit format.
SetWrites_coerce(crate, format, texel) ==
    IF format = texel.format \/ texel.u8 = <<>> \/ format \in {"RGBAF32", "F32"}
    THEN IF format # texel.format THEN Nothing(<<>>)
         ELSE Some([i \in 1..Len(texel.u8) |-> <<i - 1, texel.u8[i]>>]
                     \o (IF texel.f32 = <<>> THEN <<>> ELSE F32Writes(0, texel.f32[1])))
    ELSE Some(<<<<0, texel.u8[1]>>>>)

\* The match of OutputTexture::set: the byte writes of the arm taken, in
\* order, each <<index relative to the offset, byte>>; None for the arm
\* (_, _).  The legacy crate stores both channels of an LA8 texel at the
\* first byte.
SetWrites(crate, format, texel) ==
    IF format # texel.format THEN Nothing(<<>>)
    ELSE CASE format = "L8" -> Some(<<<<0, texel.u8[1]>>>>)
           [] format = "LA8" ->
                IF crate = "legacy"
                THEN Some(<<<<0, texel.u8[1]>>, <<0, texel.u8[2]>>>>)
                ELSE Some(<<<<0, texel.u8[1]>>, <<1, texel.u8[2]>>>>)
           [] format = "RGBA8" ->
                Some(<<<<0, texel.u8[1]>>, <<1, texel.u8[2]>>,
                       <<2, texel.u8[3]>>, <<3, texel.u8[4]>>>>)
           [] format = "RGBAF32" ->
                Some(F32Writes(0, texel.f32[1]) \o F32Writes(4, texel.f32[2])
                       \o F32Writes(8, texel.f32[3]) \o F32Writes(12, texel.f32[4]))
           [] format = "F32" -> Some(F32Writes(0, texel.f32[1]))

\* self.data[(offset + k) as usize] = byte, one after the other; an index
\* outside the buffer is a panic.
RECURSIVE ApplyWrites(_, _, _)
ApplyWrites(data, offset, ws) ==
    IF ws = <<>> THEN [data |-> data, panicked |-> FALSE]
    ELSE LET i == offset + Head(ws)[1] + 1
         IN  IF i > Len(data) THEN [data |-> data, panicked |-> TRUE]
             ELSE ApplyWrites([data EXCEPT ![i] = Head(ws)[2]], offset, Tail(ws))

\* OutputTexture::new: a zeroed buffer of BufferLen bytes.
OutputTextureNew(crate, w, h, f) ==
    [crate |-> crate, width |-> w, height |-> h, format |-> f,
     data |-> [i \in 1..IntOf(BufferLen(U32(w), U32(h), f).v) |-> 0],
     before |-> <<>>, op |-> "new", pos |-> <<0, 0>>,
     texel |-> MkTexel("none", <<>>, <<>>), ok |-> FALSE,
     got |-> Nothing(MkTexel("none", <<>>, <<>>))]

\* base_offset of an (x, y) pair of the texture.
OffsetOf(t, pos) ==
    BaseOffset(U32(t.width), U32(t.height), t.format, U32(pos[1]), U32(pos[2]))

\* OutputTexture::set: the buffer afterwards, the value returned, and whether
\* the call panicked (position out of range, or an index outside the buffer).
OutputTextureSet(t, pos, texel) ==
    LET offset == OffsetOf(t, pos)
        ws == SetWrites(t.crate, t.format, texel)
    IN  IF ~offset.some THEN [data |-> t.data, ok |-> FALSE, panicked |-> TRUE]
        ELSE IF ~ws.some THEN [data |-> t.data, ok |-> FALSE, panicked |-> FALSE]
        ELSE LET r == ApplyWrites(t.data, IntOf(offset.v), ws.v)
             IN  [data |-> r.data, ok |-> ~r.panicked, panicked |-> r.panicked]

\* The byte at offset + k.
ByteAt(t, offset, k) == t.data[offset + k + 1]

\* The four bytes read_f32 takes from data[offset + k ..].
F32At(t, offset, k) ==
    ReadF32(<<ByteAt(t, offset, k), ByteAt(t, offset, k + 1),
              ByteAt(t, offset, k + 2), ByteAt(t, offset, k + 3)>>)

\* Texture::get of an OutputTexture.
OutputTextureGet(t, pos) ==
    LET offset == OffsetOf(t, pos)
        o == IntOf(offset.v)
    IN  IF ~offset.some THEN Nothing(MkTexel("none", <<>>, <<>>))
        ELSE Some(CASE t.format = "L8" -> MkTexel("L8", <<ByteAt(t, o, 0)>>, <<>>)
                    [] t.format = "LA8" ->
                         MkTexel("LA8", <<ByteAt(t, o, 0), ByteAt(t, o, 1)>>, <<>>)
                    [] t.format = "RGBA8" ->
                         MkTexel("RGBA8", <<ByteAt(t, o, 0), ByteAt(t, o, 1),
                                            ByteAt(t, o, 2), ByteAt(t, o, 3)>>, <<>>)
                    [] t.format = "RGBAF32" ->
                         MkTexel("RGBAF32", <<>>, <<F32At(t, o, 0), F32At(t, o, 4),
                                                    F32At(t, o, 8), F32At(t, o, 12)>>)
                    [] t.format = "F32" -> MkTexel("F32", <<>>, <<F32At(t, o, 0)>>))

\* The scheduler at rest, for the specifications that study one part alone.
PipelineIdle ==
    /\ filters = <<>>
    /\ n_threads = 1
    /\ has_delegate = FALSE
    /\ swap_chain = SwapChainNew(1, 1, "RGBA8")
    /\ cur_pass = 0
    /\ canvases = <<>>
    /\ live = {}
    /\ render_target = None
    /\ previous = None
    /\ funcs = <<>>
    /\ submitted = 0
    /\ running = {}
    /\ results = {}
    /\ merged = {}
    /\ processed = 0
    /\ pc = "idle"
    /\ iter = 0
    /\ calls = 0
    /\ err = ""
    /\ output = None
    /\ log = InitLog

\* The positions tried: every one in range and the first ones out of range.
TexPositions == {<<x, y>> : x \in 0..tex.width, y \in 0..tex.height}

InRange(t, pos) == pos[1] < t.width /\ pos[2] < t.height

\* A call of set(pos, texel).
TexSet(pos, texel) ==
    /\ tex.op # "panic"
    /\ LET r == OutputTextureSet(tex, pos, texel)
       IN  tex' = [tex EXCEPT !.op = IF r.panicked THEN "panic" ELSE "set",
                              !.pos = pos, !.texel = texel, !.ok = r.ok,
                              !.before = tex.data, !.data = r.data]
    /\ UNCHANGED <<pipelineVars, sizing, negotiation, stock, compiler, parameter>>

\* A call of get(pos).
TexGet(pos) ==
    /\ tex.op # "panic"
    /\ tex' = [tex EXCEPT !.op = "get", !.pos = pos, !.before = tex.data,
                          !.got = OutputTextureGet(tex, pos)]
    /\ UNCHANGED <<pipelineVars, sizing, negotiation, stock, compiler, parameter>>

InitTexture ==
    /\ PipelineIdle
    /\ sizing = None
    /\ negotiation = None
    /\ stock = None
    /\ compiler = None
    /\ parameter = None
    /\ \E crate \in Crates, w \in PowersOfTwo, h \in PowersOfTwo, f \in Formats :
          /\ w * h <= MaxTexels
          /\ tex = OutputTextureNew(crate, w, h, f)

NextTexture ==
    \/ \E pos \in TexPositions, texel \in TestTexels : TexSet(pos, texel)
    \/ \E pos \in TexPositions : TexGet(pos)

SpecTexture == InitTexture /\ [][NextTexture]_vars

\* ------------------------------------------- canvas sizes in u32 arithmetic
Builds == {"debug", "release"}

PowerBytes == {1, 2, 4, 8, 16, 32, 64, 128}

\* The u32 whose byte k is b and whose other bytes are zero.
OneByte(k, b) ==
    <<IF k = 1 THEN b ELSE 0, IF k = 2 THEN b ELSE 0,
      IF k = 3 THEN b ELSE 0, IF k = 4 THEN b ELSE 0>>

\* The powers of two a u32 can hold.
Pow2U32 == {OneByte(k, b) : k \in 1..4, b \in PowerBytes}

\* u32::is_power_of_two
IsPowerOfTwo(a) == a \in Pow2U32

\* u32::next_power_of_two: the smallest power of two >= a; when that is 2^32
\* the call overflows (panic in a debug build, 0 in a release build).
NextPowerOfTwo(a) ==
    IF a = U32(0) THEN [v |-> U32(1), overflow |-> FALSE]
    ELSE IF IsPowerOfTwo(a) THEN [v |-> a, overflow |-> FALSE]
    ELSE LET k == CHOOSE i \in 1..4 : a[i] # 0 /\ \A j \in (i + 1)..4 : a[j] = 0
             top == CHOOSE b \in PowerBytes : b <= a[k] /\ a[k] < 2 * b
         IN  IF top < 128 THEN [v |-> OneByte(k, 2 * top), overflow |-> FALSE]
             ELSE IF k < 4 THEN [v |-> OneByte(k + 1, 1), overflow |-> FALSE]
             ELSE [v |-> U32(0), overflow |-> TRUE]

\* SwapChain::new (and the legacy OutputTexture::new) on one dimension:
\* if !n.is_power_of_two() { n = n.next_power_of_two(); }
RoundUp(n) ==
    IF ~IsPowerOfTwo(n) THEN NextPowerOfTwo(n) ELSE [v |-> n, overflow |-> FALSE]

\* Sizes asked for, from the smallest to the largest u32.
SizeSamples ==
    {U32(0), U32(1), U32(3), U32(4), U32(65535), U32(65536),
     <<0, 0, 0, 128>>, <<1, 0, 0, 128>>, <<255, 255, 255, 255>>}

\* Coordinates asked for.
CoordSamples == {U32(0), U32(1), U32(2), U32(3), U32(65535), U32(65536)}

\* SwapChain::new(width, height, format): both dimensions rounded up.
SizeSwapChainNew ==
    /\ sizing.stage = "request"
    /\ LET w == RoundUp(sizing.req_w)
           h == RoundUp(sizing.req_h)
       IN  sizing' = IF sizing.build = "debug" /\ (w.overflow \/ h.overflow)
                     THEN [sizing EXCEPT !.stage = "panic", !.fault = "round"]
                     ELSE [sizing EXCEPT !.stage = "chain", !.width = w.v,
                                         !.height = h.v]
    /\ UNCHANGED <<pipelineVars, tex, negotiation, stock, compiler, parameter>>

\* OutputTexture::new(width, height, format) in SwapChain::next: the buffer.
SizeOutputTextureNew ==
    /\ sizing.stage = "chain"
    /\ LET len == BufferLen(sizing.width, sizing.height, sizing.format)
       IN  sizing' = IF sizing.build = "debug" /\ len.overflow
                     THEN [sizing EXCEPT !.stage = "panic", !.fault = "alloc"]
                     ELSE [sizing EXCEPT !.stage = "texture", !.len = len.v,
                                         !.exact = ~len.overflow]
    /\ UNCHANGED <<pipelineVars, tex, negotiation, stock, compiler, parameter>>

\* base_offset(x, y) on that canvas.
SizeBaseOffset(x, y) ==
    /\ sizing.stage = "texture"
    /\ LET o == BaseOffset(sizing.width, sizing.height, sizing.format, x, y)
       IN  sizing' = IF sizing.build = "debug" /\ o.overflow
                     THEN [sizing EXCEPT !.stage = "panic", !.fault = "offset",
                                         !.x = x, !.y = y]
                     ELSE [sizing EXCEPT !.stage = "offset", !.x = x, !.y = y,
                                         !.offset = o]
    /\ UNCHANGED <<pipelineVars, tex, negotiation, stock, compiler, parameter>>

InitSizing ==
    /\ PipelineIdle
    /\ tex = None
    /\ negotiation = None
    /\ stock = None
    /\ compiler = None
    /\ parameter = None
    /\ \E b \in Builds, w \in SizeSamples, h \in SizeSamples, f \in Formats :
          sizing = [build |-> b, req_w |-> w, req_h |-> h, format |-> f,
                    stage |-> "request", fault |-> "none",
                    width |-> U32(0), height |-> U32(0), len |-> U32(0),
                    exact |-> TRUE, x |-> U32(0), y |-> U32(0),
                    offset |-> [some |-> FALSE, v |-> U32(0), overflow |-> FALSE]]

NextSizing ==
    \/ SizeSwapChainNew
    \/ SizeOutputTextureNew
    \/ \E x \in CoordSamples, y \in CoordSamples : SizeBaseOffset(x, y)

SpecSizing == InitSizing /\ [][NextSizing]_vars

\* ------------------------------------------------------- auto-negotiation
DEFAULT_WIDTH == 256
DEFAULT_HEIGHT == 256
DefaultFormat == "RGBA8"

NoBase == [width |-> 0, height |-> 0, format |-> "none"]

\* The filters of a Config, with the parameters their declarations depend on.
FilterDecls ==
    {[kind |-> k, alpha |-> FALSE, base |-> NoBase] :
         k \in {"noise", "brightness", "gaussian"}}
    \cup {[kind |-> "greyscale", alpha |-> a, base |-> NoBase] : a \in BOOLEAN}
    \cup {[kind |-> "resample", alpha |-> FALSE, base |-> b] :
              b \in {[width |-> 8, height |-> 4, format |-> "L8"],
                     [width |-> 16, height |-> 2, format |-> "LA8"]}}

\* Filter::get_texture_size
GetTextureSize(f) ==
    IF f.kind = "resample" THEN Some(<<f.base.width, f.base.height>>)
    ELSE Nothing(<<0, 0>>)

\* Filter::get_texture_format
GetTextureFormat(f) ==
    CASE f.kind = "resample" -> Some(f.base.format)
      [] f.kind = "greyscale" -> IF f.alpha THEN Some("LA8") ELSE Some("L8")
      [] OTHER -> Nothing("none")

\* An is_none that holds of every option.
IsNone_always(o) == TRUE

\* Option::is_none
IsNone(o) == ~o.some

\* Option::unwrap_or
UnwrapOr(o, default) == IF o.some THEN o.v ELSE default

\* A loop over the filters from the last to the first.
RECURSIVE NegotiateLoop_reversed(_, _, _, _)
NegotiateLoop_reversed(fs, width, height, format) ==
    IF fs = <<>> THEN [width |-> width, height |-> height, format |-> format]
    ELSE LET f == fs[Len(fs)]
             size == GetTextureSize(f)
             fmt == GetTextureFormat(f)
         IN  NegotiateLoop_reversed(
                 SubSeq(fs, 1, Len(fs) - 1),
                 IF size.some /\ IsNone(width) THEN Some(size.v[1]) ELSE width,
                 IF size.some /\ IsNone(height) THEN Some(size.v[2]) ELSE height,
                 IF IsNone(format) /\ fmt.some THEN Some(fmt.v) ELSE format)

\* 'for f in &self.filters' of Compiler::run: each filter, in declaration
\* order, fills what is still None.
RECURSIVE NegotiateLoop(_, _, _, _)
NegotiateLoop(fs, width, height, format) ==
    IF fs = <<>> THEN [width |-> width, height |-> height, format |-> format]
    ELSE LET f == Head(fs)
             size == GetTextureSize(f)
             fmt == GetTextureFormat(f)
         IN  NegotiateLoop(
                 Tail(fs),
                 IF size.some /\ IsNone(width) THEN Some(size.v[1]) ELSE width,
                 IF size.some /\ IsNone(height) THEN Some(size.v[2]) ELSE height,
                 IF IsNone(format) /\ fmt.some THEN Some(fmt.v) ELSE format)

\* Compiler::run up to SwapChain::new: the arguments the swap chain is
\* created with.
ChainArguments(config, fs) ==
    LET r == IF IsNone(config.width) \/ IsNone(config.height) \/ IsNone(config.format)
             THEN NegotiateLoop(fs, config.width, config.height, config.format)
             ELSE config
    IN  [width |-> UnwrapOr(r.width, DEFAULT_WIDTH),
         height |-> UnwrapOr(r.height, DEFAULT_HEIGHT),
         format |-> UnwrapOr(r.format, DefaultFormat)]

\* The Configs tried: each field left out or given a value no filter declares.
Configs ==
    {[width |-> w, height |-> h, format |-> f] :
         w \in {Nothing(0), Some(64)}, h \in {Nothing(0), Some(32)},
         f \in {Nothing("none"), Some("F32")}}

\* Compiler::run reaches SwapChain::new.
Negotiate ==
    /\ negotiation.stage = "config"
    /\ negotiation' = [negotiation EXCEPT
                          !.stage = "negotiated",
                          !.chain = ChainArguments(negotiation.config,
                                                   negotiation.filters)]
    /\ UNCHANGED <<pipelineVars, tex, sizing, stock, compiler, parameter>>

\* The swap chain is created and the filters are handed to the pipeline.
NegotiationDone ==
    /\ negotiation.stage = "negotiated"
    /\ negotiation' = [negotiation EXCEPT !.stage = "pipeline"]
    /\ UNCHANGED <<pipelineVars, tex, sizing, stock, compiler, parameter>>

InitNegotiation ==
    /\ PipelineIdle
    /\ tex = None
    /\ sizing = None
    /\ stock = None
    /\ compiler = None
    /\ parameter = None
    /\ \E c \in Configs, fs \in SeqsUpTo(FilterDecls, MaxPasses) :
          negotiation = [config |-> c, filters |-> fs, stage |-> "config",
                         chain |-> [width |-> 0, height |-> 0, format |-> "none"]]

NextNegotiation ==
    \/ Negotiate
    \/ NegotiationDone

SpecNegotiation == InitNegotiation /\ [][NextNegotiation]_vars

\* ------------------------------------- the stock filters, channel by channel
\* The formats an ImageTexture can have (R8, RA8 and RGBA8 images).
ImageFormats == {"L8", "LA8", "RGBA8"}

NoStockTexel == MkTexel("none", <<>>, <<>>)

\* Texel::rgba: None for the float formats.
Rgba(texel) ==
    CASE texel.format = "L8" ->
            Some(<<texel.u8[1], texel.u8[1], texel.u8[1], MaxByte>>)
      [] texel.format = "LA8" ->
            Some(<<texel.u8[1], texel.u8[1], texel.u8[1], texel.u8[2]>>)
      [] texel.format = "RGBA8" -> Some(texel.u8)
      [] OTHER -> Nothing(<<0, 0, 0, 0>>)

\* Colours the textures of the model are painted with.
RgbaSamples ==
    << <<10, 200, 30, 40>>, <<2, 156, 19, 77>>, <<255, 255, 255, 255>>, <<0, 0, 0, 0>> >>

\* The texel of a format that stores a colour (what the image crate gives for
\* an image of that kind; one for every float channel).
TexelOf(format, q) ==
    CASE format = "L8" -> MkTexel("L8", <<q[1]>>, <<>>)
      [] format = "LA8" -> MkTexel("LA8", <<q[1], q[4]>>, <<>>)
      [] format = "RGBA8" -> MkTexel("RGBA8", q, <<>>)
      [] format = "F32" -> MkTexel("F32", <<>>, <<F32One>>)
      [] format = "RGBAF32" -> MkTexel("RGBAF32", <<>>, <<F32One, F32One, F32One, F32One>>)

\* A texture of the model: row-major texels, painted from the k-th sample on.
Painted(w, h, format, k) ==
    [width |-> w, height |-> h, format |-> format,
     data |-> [i \in 1..(w * h) |->
                  TexelOf(format, RgbaSamples[((i - 1 + k) % Len(RgbaSamples)) + 1])]]

\* Texture::get: None for a position out of range.
StockGet(t, x, y) ==
    IF x < t.width /\ y < t.height THEN Some(t.data[y * t.width + x + 1])
    ELSE Nothing(NoStockTexel)

\* Texture::sample(pos / size): the nearest texel of the texture for a position
\* of a canvas of another size (the canvas's sides are powers of two, so the
\* f64 quotient is exact and the cast truncates the exact product).
StockSample(t, x, y, size) ==
    StockGet(t, (x * t.width) \div size[1], (y * t.height) \div size[2])

\* A conversion that goes through rgba() even when the formats are equal.
ResampleConvert_noShortcut(format, texel) ==
    CASE format = "L8" -> MkTexel("L8", <<Rgba(texel).v[1]>>, <<>>)
      [] format = "LA8" -> MkTexel("LA8", <<Rgba(texel).v[1], Rgba(texel).v[2]>>, <<>>)
      [] format = "RGBA8" -> MkTexel("RGBA8", Rgba(texel).v, <<>>)
      [] OTHER -> texel

\* resample.rs Func::convert
ResampleConvert(format, texel) ==
    IF texel.format = format THEN texel
    ELSE CASE format = "L8" -> MkTexel("L8", <<Rgba(texel).v[1]>>, <<>>)
           [] format = "LA8" ->
                 MkTexel("LA8", <<Rgba(texel).v[1], Rgba(texel).v[2]>>, <<>>)
           [] format = "RGBA8" -> MkTexel("RGBA8", Rgba(texel).v, <<>>)
           [] OTHER -> texel

\* Resample::new_function on a base texture: the error, or the Function.
ResampleFunction(base, fb) ==
    IF ~check_format_compatible(base.format, fb.format) THEN Err("UnsupportedFormat")
    ELSE Ok([kind |-> "resample", format |-> fb.format,
             is_eq_size |-> <<base.width, base.height>> = <<fb.width, fb.height>>,
             size |-> <<fb.width, fb.height>>])

\* Resample::get_texture_size
ResampleTextureSize(base) == Some(<<base.width, base.height>>)

\* Greyscale::new_function on a previous canvas: the error, or the Function.
GreyscaleFunction(prev, fb) ==
    LET r == GreyscaleNewFunction([previous |-> 1, width |-> fb.width,
                                   height |-> fb.height, format |-> fb.format],
                                  <<prev>>)
    IN  IF ~r.ok THEN r
        ELSE Ok([kind |-> "greyscale", format |-> fb.format,
                 is_eq_size |-> fb.width = prev.width /\ fb.height = prev.height,
                 size |-> <<fb.width, fb.height>>])

\* The texel a Function of either filter reads for a position.
StockRead(func, t, x, y) ==
    IF func.is_eq_size THEN StockGet(t, x, y) ELSE StockSample(t, x, y, func.size)

\* The colours of the model for which the f64 sum 0.257 r + 0.504 g + 0.098 b
\* + 16.0 falls just below the integer the exact sum is
\* (2, 156, 19 gives 96.99999999999999).
F64FallsBelow == {<<2, 156, 19>>}

\* greyscale.rs Func::apply: the luma in f64, clamped, cast to u8.
LumaF64(r, g, b) ==
    LET exact == 257 * r + 504 * g + 98 * b + 16000
        cast == exact \div 1000 - (IF <<r, g, b>> \in F64FallsBelow THEN 1 ELSE 0)
    IN  Min(MaxByte, cast)

\* greyscale.rs Func::apply on the texel read.
GreyscaleApply(format, texel) ==
    LET q == Rgba(texel).v
    IN  IF format = "L8" THEN MkTexel("L8", <<LumaF64(q[1], q[2], q[3])>>, <<>>)
        ELSE MkTexel("LA8", <<LumaF64(q[1], q[2], q[3]), q[4]>>, <<>>)

\* Sizes of the textures and of the frame buffers (swap chain canvases).
TextureSizes == {s \in (1..MaxTexels) \X (1..MaxTexels) : s[1] * s[2] <= MaxTexels}

CanvasSizes == {s \in TextureSizes : s[1] \in PowersOfTwo /\ s[2] \in PowersOfTwo}

StockState(kind, source, fb) ==
    [kind |-> kind, source |-> source, fb |-> fb, stage |-> "filter",
     result |-> "", func |-> None, size |-> Nothing(<<0, 0>>), compatible |-> FALSE,
     pos |-> <<0, 0>>, src |-> NoStockTexel, out |-> NoStockTexel]

\* check_format_compatible(inf, outf) for a pair of formats.
StockCompatible ==
    /\ stock.kind = "formats"
    /\ stock.stage = "filter"
    /\ stock' = [stock EXCEPT
                    !.stage = "checked",
                    !.compatible = check_format_compatible(stock.source.format,
                                                           stock.fb.format)]
    /\ UNCHANGED <<pipelineVars, tex, sizing, negotiation, compiler, parameter>>

\* get_texture_size and new_function of the filter for the frame buffer.
StockNewFunction ==
    /\ stock.kind \in {"resample", "greyscale"}
    /\ stock.stage = "filter"
    /\ LET r == IF stock.kind = "resample"
                THEN ResampleFunction(stock.source, stock.fb)
                ELSE GreyscaleFunction(stock.source, stock.fb)
       IN  stock' = [stock EXCEPT
                        !.stage = "function",
                        !.result = IF r.ok THEN "Ok" ELSE r.err,
                        !.func = r.func,
                        !.size = IF stock.kind = "resample"
                                 THEN ResampleTextureSize(stock.source)
                                 ELSE Nothing(<<0, 0>>)]
    /\ UNCHANGED <<pipelineVars, tex, sizing, negotiation, compiler, parameter>>

\* apply(pos) of the Function for a position of the frame buffer.
StockApply(x, y) ==
    /\ stock.stage = "function"
    /\ stock.result = "Ok"
    /\ x < stock.fb.width
    /\ y < stock.fb.height
    /\ LET read == StockRead(stock.func, stock.source, x, y)
       IN  /\ read.some
           /\ stock' = [stock EXCEPT
                           !.stage = "texel",
                           !.pos = <<x, y>>,
                           !.src = read.v,
                           !.out = IF stock.kind = "resample"
                                   THEN ResampleConvert(stock.func.format, read.v)
                                   ELSE GreyscaleApply(stock.func.format, read.v)]
    /\ UNCHANGED <<pipelineVars, tex, sizing, negotiation, compiler, parameter>>

InitFilter ==
    /\ PipelineIdle
    /\ tex = None
    /\ sizing = None
    /\ negotiation = None
    /\ compiler = None
    /\ parameter = None
    /\ \/ \E inf \in Formats, outf \in Formats :
             stock = StockState("formats",
                                [width |-> 0, height |-> 0, format |-> inf, data |-> <<>>],
                                [width |-> 1, height |-> 1, format |-> outf])
       \/ \E kind \in {"resample", "greyscale"}, ts \in TextureSizes,
             cs \in CanvasSizes, k \in 0..1, tf \in Formats, cf \in Formats :
             /\ kind = "resample" => tf \in ImageFormats
             /\ tf \notin ImageFormats => k = 0
             /\ stock = StockState(kind, Painted(ts[1], ts[2], tf, k),
                                   [width |-> cs[1], height |-> cs[2], format |-> cf])

NextFilter ==
    \/ StockCompatible
    \/ StockNewFunction
    \/ \E x \in 0..(MaxTexels - 1), y \in 0..(MaxTexels - 1) : StockApply(x, y)

SpecFilter == InitFilter /\ [][NextFilter]_vars

\* ------------------------------------------------------ filter parameters
\* The most comma-separated fields a parameter value of the model has.
MaxFields == 5

Digits == {"1", "7"}

Chars == Digits \cup {"-", ".", " ", "x", ","}

\* str::parse::<i64>: an optional sign, then digits only and at least one
\* (the values of the model are too short to overflow).
ParsesInt(cs) ==
    LET body == IF cs # <<>> /\ cs[1] \in {"-", "+"} THEN Tail(cs) ELSE cs
    IN  body # <<>> /\ \A i \in 1..Len(body) : body[i] \in Digits

\* str::parse::<f64> for the characters of the model: an optional sign, then
\* digits with at most one point among them and at least one digit.
ParsesFloat(cs) ==
    LET body == IF cs # <<>> /\ cs[1] \in {"-", "+"} THEN Tail(cs) ELSE cs
    IN  /\ \A i \in 1..Len(body) : body[i] \in Digits \cup {"."}
        /\ Cardinality({i \in 1..Len(body) : body[i] = "."}) <= 1
        /\ \E i \in 1..Len(body) : body[i] \in Digits

RECURSIVE TrimStart(_)
TrimStart(cs) == IF cs # <<>> /\ cs[1] = " " THEN TrimStart(Tail(cs)) ELSE cs

RECURSIVE TrimEnd(_)
TrimEnd(cs) ==
    IF cs # <<>> /\ cs[Len(cs)] = " " THEN TrimEnd(SubSeq(cs, 1, Len(cs) - 1)) ELSE cs

\* str::trim
Trim(cs) == TrimEnd(TrimStart(cs))

\* str::split(","): the pieces between the commas (one piece if there is none).
RECURSIVE Split(_, _)
Split(cs, piece) ==
    IF cs = <<>> THEN <<piece>>
    ELSE IF cs[1] = "," THEN <<piece>> \o Split(Tail(cs), <<>>)
    ELSE Split(Tail(cs), Append(piece, cs[1]))

\* The last fallback of parse: the number of components of the vector the
\* value is, if it is 2, 3 or 4 floats between commas.
VectorOf(cs) ==
    LET vecsplit == Split(cs, <<>>)
    IN  IF Len(vecsplit) \in {2, 3, 4}
           /\ \A i \in 1..Len(vecsplit) : ParsesFloat(Trim(vecsplit[i]))
        THEN Some(Len(vecsplit)) ELSE Nothing(0)

\* A classification that tries the float before the integer.
Classify_floatFirst(cs) ==
    IF ParsesFloat(cs) THEN "Float"
    ELSE IF ParsesInt(cs) THEN "Int"
    ELSE IF VectorOf(cs).some
         THEN (CASE VectorOf(cs).v = 2 -> "Vector2"
                 [] VectorOf(cs).v = 3 -> "Vector3"
                 [] VectorOf(cs).v = 4 -> "Vector4")
         ELSE "String"

\* A classification that reads the words true and false as Bool.
Classify_withBool(cs) ==
    IF cs \in {<<"true">>, <<"false">>} THEN "Bool"
    ELSE IF ParsesInt(cs) THEN "Int"
    ELSE IF ParsesFloat(cs) THEN "Float"
    ELSE IF VectorOf(cs).some
         THEN (CASE VectorOf(cs).v = 2 -> "Vector2"
                 [] VectorOf(cs).v = 3 -> "Vector3"
                 [] VectorOf(cs).v = 4 -> "Vector4")
         ELSE "String"

\* The Parameter variant of a value that is not a file: Int, else Float, else
\* a vector, else String.
Classify(cs) ==
    IF ParsesInt(cs) THEN "Int"
    ELSE IF ParsesFloat(cs) THEN "Float"
    ELSE IF VectorOf(cs).some
         THEN (CASE VectorOf(cs).v = 2 -> "Vector2"
                 [] VectorOf(cs).v = 3 -> "Vector3"
                 [] VectorOf(cs).v = 4 -> "Vector4")
         ELSE "String"

\* One iteration of the loop of parse, for a value [file, image, utf8, text]:
\* the Parameter variant, or the error.
ParseValue(v) ==
    IF v.file
    THEN (IF v.image THEN [ok |-> TRUE, type |-> "Texture", err |-> ""]
          ELSE [ok |-> FALSE, type |-> "", err |-> "Image"])
    ELSE IF ~v.utf8 THEN [ok |-> FALSE, type |-> "", err |-> "InvalidUtf8"]
    ELSE [ok |-> TRUE, type |-> Classify(v.text), err |-> ""]

\* HashMap::insert (a Parameter is kept as its variant and the text it was
\* made of)
MapInsert(m, k, t) == [x \in (DOMAIN m) \cup {k} |-> IF x = k THEN t ELSE m[x]]

\* ParameterMap::parse on Some(params): the loop over the (key, value) pairs,
\* left through '?' at the first value that fails.
RECURSIVE ParseLoop(_, _)
ParseLoop(params, content) ==
    IF params = <<>> THEN [ok |-> TRUE, content |-> content, err |-> ""]
    ELSE LET r == ParseValue(Head(params).value)
         IN  IF ~r.ok THEN [ok |-> FALSE, content |-> <<>>, err |-> r.err]
             ELSE ParseLoop(Tail(params),
                            MapInsert(content, Head(params).key,
                                      [type |-> r.type, text |-> Head(params).value.text]))

\* ParameterMap::parse: None gives the empty map.
ParameterMapParse(params) ==
    IF ~params.some THEN [ok |-> TRUE, content |-> <<>>, err |-> ""]
    ELSE ParseLoop(params.v, <<>>)

\* ParameterMap::get
MapGet(m, k) ==
    IF k \in DOMAIN m THEN Some(m[k]) ELSE Nothing([type |-> "", text |-> <<>>])

\* The pieces the values of the model are made of.
Fields ==
    {<<>>, <<"1">>, <<"-", "7">>, <<"1", ".">>, <<".">>, <<" ", "1", " ">>, <<"x">>}

RECURSIVE Join(_)
Join(fs) ==
    IF Len(fs) = 1 THEN fs[1] ELSE fs[1] \o <<",">> \o Join(Tail(fs))

\* Values that are text: up to MaxFields pieces with commas between them.
TextValues ==
    {[file |-> FALSE, image |-> FALSE, utf8 |-> TRUE, text |-> Join(fs)] :
        fs \in UNION {[1..n -> Fields] : n \in 1..MaxFields}}

\* Values that are the path of a file (whatever the path looks like), and a
\* value that is neither a file nor UTF-8.
FileValues ==
    {[file |-> TRUE, image |-> i, utf8 |-> u, text |-> t] :
        i \in BOOLEAN, u \in BOOLEAN, t \in {<<"1">>, <<"x">>, <<"1", ",", "1">>}}
    \cup {[file |-> FALSE, image |-> FALSE, utf8 |-> FALSE, text |-> <<>>]}

\* One value of each kind, for the lists of more than one parameter.
SampleValues ==
    {v \in TextValues : v.text \in {<<"1">>, <<"1", ".">>, <<"x">>, <<"1", ",", "1">>}}
    \cup {v \in FileValues : v.text \in {<<"x">>, <<>>}}

Keys == {"base", "alpha"}

ParamLists ==
    {<<[key |-> k, value |-> v]>> : k \in {"base"}, v \in TextValues \cup FileValues}
    \cup {<<[key |-> k1, value |-> v1], [key |-> k2, value |-> v2]>> :
             k1 \in Keys, k2 \in Keys, v1 \in SampleValues, v2 \in SampleValues}

\* The call of ParameterMap::parse.
Parse ==
    /\ parameter.stage = "params"
    /\ LET r == ParameterMapParse(parameter.params)
       IN  parameter' = [parameter EXCEPT !.stage = "parsed", !.ok = r.ok,
                                          !.content = r.content, !.err = r.err]
    /\ UNCHANGED <<pipelineVars, tex, sizing, negotiation, stock, compiler>>

InitParams ==
    /\ PipelineIdle
    /\ tex = None
    /\ sizing = None
    /\ negotiation = None
    /\ stock = None
    /\ compiler = None
    /\ \E ps \in {Nothing(<<>>)} \cup {Some(l) : l \in ParamLists} :
          parameter = [stage |-> "params", params |-> ps, ok |-> FALSE,
                       content |-> <<>>, err |-> ""]

NextParams == Parse

SpecParams == InitParams /\ [][NextParams]_vars

\* ---------------------------------------------------- Compiler::add_filter
NoFilter == [kind |-> "none"]

FilterOk(f) == [ok |-> TRUE, filter |-> f, error |-> "", name |-> ""]

FilterErr(e, n) == [ok |-> FALSE, filter |-> NoFilter, error |-> e, name |-> n]

\* params.get(k).map(|v| v.as_...()): whether the parameter is there but of
\* another variant than the filter reads it as.
Mistyped(m, k, type) == MapGet(m, k).some /\ MapGet(m, k).v.type # type

\* Brightness::new
BrightnessNew(m) ==
    IF Mistyped(m, "brightness", "Float") THEN FilterErr("InvalidParameter", "brightness")
    ELSE FilterOk([kind |-> "brightness"])

\* Gaussian::new
GaussianNew(m) ==
    IF Mistyped(m, "sigma", "Float") THEN FilterErr("InvalidParameter", "sigma")
    ELSE IF Mistyped(m, "ksize", "Int") THEN FilterErr("InvalidParameter", "ksize")
    ELSE FilterOk([kind |-> "gaussian"])

\* Greyscale::new
GreyscaleNew(m) ==
    IF Mistyped(m, "alpha", "Bool") THEN FilterErr("InvalidParameter", "alpha")
    ELSE FilterOk([kind |-> "greyscale"])

\* Noise::new (a word of a value stands as one character of its text)
NoiseNew(m) ==
    IF Mistyped(m, "mode", "String") THEN FilterErr("InvalidParameter", "mode")
    ELSE LET mode == IF MapGet(m, "mode").some THEN MapGet(m, "mode").v.text
                     ELSE <<"random">>
         IN  CASE mode = <<"random">> -> FilterOk([kind |-> "noise"])
               [] mode = <<"perlin">> ->
                     IF Mistyped(m, "seed", "Int") THEN FilterErr("InvalidParameter", "seed")
                     ELSE FilterOk([kind |-> "noise"])
               [] OTHER -> FilterErr("InvalidParameter", "mode")

\* Resample::new
ResampleNew(m) ==
    IF ~MapGet(m, "base").some THEN FilterErr("MissingParameter", "base")
    ELSE IF MapGet(m, "base").v.type # "Texture" THEN FilterErr("InvalidParameter", "base")
    ELSE FilterOk([kind |-> "resample"])

\* DynamicFilter::from_name, as build.rs generates it: one arm for every file
\* of src/filter, None for every other name.
FromName(m, name) ==
    CASE name = "brightness" -> Some(BrightnessNew(m))
      [] name = "gaussian" -> Some(GaussianNew(m))
      [] name = "greyscale" -> Some(GreyscaleNew(m))
      [] name = "noise" -> Some(NoiseNew(m))
      [] name = "resample" -> Some(ResampleNew(m))
      [] OTHER -> Nothing(FilterErr("", ""))

\* A push at the front of the list.
Pushed_front(fs, f) == <<f>> \o fs

\* self.filters.push(filter)
Pushed(fs, f) == Append(fs, f)

AddOk == [ok |-> TRUE, error |-> "", detail |-> "", name |-> ""]

AddErr(e, d, n) == [ok |-> FALSE, error |-> e, detail |-> d, name |-> n]

\* Compiler::add_filter: the filter list after the call and what it returned.
AddFilterCall(fs, name, params) ==
    LET p == ParameterMapParse(params)
        f == FromName(p.content, name)
    IN  IF ~p.ok THEN [filters |-> fs, result |-> AddErr("Parameters", p.err, "")]
        ELSE IF ~f.some THEN [filters |-> fs, result |-> AddErr("Unknown", "", name)]
        ELSE IF ~f.v.ok
             THEN [filters |-> fs, result |-> AddErr("Filter", f.v.error, f.v.name)]
        ELSE [filters |-> Pushed(fs, f.v.filter), result |-> AddOk]

\* A value that is text.
Text(t) == [file |-> FALSE, image |-> FALSE, utf8 |-> TRUE, text |-> t]

\* Names and parameters add_filter is called with.
AddNames == FilterKinds \cup {"blur"}

AddParams ==
    {Nothing(<<>>)}
    \cup {Some(<<[key |-> "base", value |-> v]>>) :
             v \in {[file |-> TRUE, image |-> i, utf8 |-> TRUE, text |-> <<"x">>] :
                       i \in BOOLEAN}
                   \cup {Text(<<"x">>),
                         [file |-> FALSE, image |-> FALSE, utf8 |-> FALSE, text |-> <<>>]}}
    \cup {Some(<<[key |-> "alpha", value |-> v]>>) :
             v \in {Text(<<"false">>), Text(<<"1">>),
                    [file |-> TRUE, image |-> TRUE, utf8 |-> TRUE, text |-> <<"x">>]}}
    \cup {Some(<<[key |-> "mode", value |-> Text(t)]>>) :
             t \in {<<"random">>, <<"perlin">>, <<"1">>}}
    \cup {Some(<<[key |-> "brightness", value |-> Text(t)]>>) :
             t \in {<<"1", ".", "7">>, <<"1">>}}
    \cup {Some(<<[key |-> "mode", value |-> Text(<<"perlin">>)],
                 [key |-> "seed", value |-> Text(t)]>>) : t \in {<<"7">>, <<"x">>}}

\* A call of add_filter on a Compiler that has not been run (run takes the
\* Compiler by value, so there is no call after it).
AddFilter(name, params) ==
    /\ compiler.stage = "building"
    /\ Len(compiler.filters) < MaxPasses
    /\ LET r == AddFilterCall(compiler.filters, name, params)
       IN  compiler' = [compiler EXCEPT !.filters = r.filters, !.result = r.result,
                                        !.name = name, !.params = params,
                                        !.adds = 1 - @]
    /\ UNCHANGED <<pipelineVars, tex, sizing, negotiation, stock, parameter>>

\* Compiler::run(self): the filter list moves into the pipeline.
CompilerRun ==
    /\ compiler.stage = "building"
    /\ compiler' = [compiler EXCEPT !.stage = "run"]
    /\ UNCHANGED <<pipelineVars, tex, sizing, negotiation, stock, parameter>>

InitAddFilter ==
    /\ PipelineIdle
    /\ tex = None
    /\ sizing = None
    /\ negotiation = None
    /\ stock = None
    /\ parameter = None
    /\ compiler = [stage |-> "building", filters |-> <<>>, result |-> AddOk,
                   name |-> "", params |-> Nothing(<<>>), adds |-> 0]

NextAddFilter ==
    \/ \E name \in AddNames, params \in AddParams : AddFilter(name, params)
    \/ CompilerRun

SpecAddFilter == InitAddFilter /\ [][NextAddFilter]_vars

\* ==================================================================== claims
InPass == pc \in {"new_function", "pass"}

Returned == pc \in {"idle", "returned_err", "run_err"}

\* C1: in every pass i > 0 next_pass holds two distinct canvases, and the one
\* shared as 'previous' is the render target of pass i-1, still holding the
\* pixels merged in pass i-1.
C1_PreviousIsLastTarget ==
    (InPass /\ cur_pass > 0) =>
        /\ render_target # None
        /\ previous # None
        /\ render_target # previous
        /\ previous = log.last_target
        /\ canvases[previous].data = log.last_data

\* A third pass (the first one whose two canvases are both recycled) is merging.
C1_Witness == pc = "pass" /\ cur_pass = 2 /\ merged # {} /\ previous # None

\* C2: when finish() has returned, its result is the render target of the
\* last completed pass with the pixels of that pass: the second canvas
\* drained, the first one being discarded.
C2_FinishReturnsLastTarget ==
    (pc = "finished") =>
        /\ output = log.last_target
        /\ output = log.drained[2]
        /\ canvases[output].data = log.last_data
        /\ output \in live
        /\ log.drained[1] \notin live

\* C3: the canvases taken with next() and not given back with put_back()
\* are never more than two.
C3_AtMostTwoOutstanding == log.acquired - log.released <= 2

\* C4: whenever next_pass has returned, on any exit path, every canvas it
\* acquired has been given back by one put_back.
C4_EveryAcquireReleased == Returned => log.acquired = log.released

\* C5: at most two canvases exist at any time (pooled, held by a pass or taken
\* by finish), and no third canvas is ever allocated.
C5_AtMostTwoCanvases == Cardinality(live) <= 2 /\ Len(canvases) <= 2

\* finish() after one pass holds a freshly allocated canvas while the pass's
\* output is still pooled.
C5_Witness == pc = "finish" /\ cur_pass = 1 /\ Cardinality(live) = 2

\* C6: every frame buffer handed to new_function has no previous canvas in
\* pass 0 and has one in every later pass; a pass that starts made n_threads
\* such calls.
C6_PreviousOnlyAfterFirstPass ==
    /\ \A i \in 1..Len(log.fbs) :
          IF log.pass = 0 THEN log.fbs[i] = None ELSE log.fbs[i] # None
    /\ (pc = "pass") => Len(log.fbs) = n_threads

\* A later pass has built its two Functions.
C6_Witness == pc = "pass" /\ log.pass > 0 /\ Len(log.fbs) = 2

\* C7: a call of next_pass with cur_pass = number of filters and a call of
\* finish with cur_pass = 0 end in the assertion failure and change nothing
\* else; other calls proceed; cur_pass changes only when a pass completes,
\* and then by exactly one.
C7_Lifecycle ==
    [][/\ (calls' = calls + 1 /\ log'.call = "next_pass") =>
             IF cur_pass = Len(filters)
             THEN pc' = "panic" /\ UNCHANGED <<cur_pass, swap_chain, canvases>>
             ELSE pc' = "new_function"
       /\ (calls' = calls + 1 /\ log'.call = "finish") =>
             IF cur_pass = 0
             THEN pc' = "panic" /\ UNCHANGED <<cur_pass, swap_chain, canvases>>
             ELSE pc' = "finish"
       /\ (pc = "pass" /\ pc' = "idle") => cur_pass' = cur_pass + 1
       /\ (cur_pass' # cur_pass) => (pc = "pass" /\ pc' = "idle")
       /\ cur_pass' <= Len(filters)
      ]_vars

\* next_pass was called once every filter had run, and was rejected.
C7_Witness ==
    pc = "panic" /\ log.call = "next_pass" /\ cur_pass = Len(filters) /\ cur_pass > 0

\* C8: when next_pass returns a FrameBufferError no task was submitted, no
\* apply ran, no canvas was written and the observer was never called.
C8_FailFast ==
    (pc \in {"returned_err", "run_err"}) =>
        /\ err # ""
        /\ submitted = 0
        /\ running = {}
        /\ results = {}
        /\ merged = {}
        /\ log.applies = 0
        /\ log.writes = 0
        /\ canvases = log.before
        /\ log.start_pass = 0
        /\ log.start_texel = 0
        /\ log.end_texel = 0

\* A later pass of a pipeline with an observer failed on the previous format.
C8_Witness ==
    /\ pc = "returned_err"
    /\ has_delegate
    /\ cur_pass > 0
    /\ err = "UnsupportedPreviousFormat"

\* C9: next_pass returns either with no task submitted and nothing merged, or
\* with the result of every position merged; never in between.
C9_NoPartialMerge ==
    Returned => \/ (submitted = 0 /\ merged = {})
                \/ (submitted = Total /\ merged = Positions)

\* The pixels one pass leaves on a canvas that held 'base', computed position
\* by position on one thread: each texel whose format matches is written.
SequentialPass(kind, base, prev, sc) ==
    LET cs == <<[width |-> sc.width, height |-> sc.height, format |-> sc.format,
                 data |-> prev]>>
        f == [kind |-> kind, format |-> sc.format,
              buffer |-> IF prev = <<>> THEN None ELSE 1]
    IN  [i \in 1..(sc.width * sc.height) |->
            LET t == Apply(f, i - 1, cs)
            IN  IF t.format = sc.format THEN t.v ELSE base[i]]

\* The render target after the first k passes of a run without workers: the
\* canvas of pass k is fresh in passes 1 and 2 and the one of pass k-2 later.
RECURSIVE SequentialRun(_, _, _)
SequentialRun(fs, k, sc) ==
    LET zero == [i \in 1..(sc.width * sc.height) |-> 0]
        base == IF k <= 2 THEN zero ELSE SequentialRun(fs, k - 2, sc)
        prev == IF k = 1 THEN <<>> ELSE SequentialRun(fs, k - 1, sc)
    IN  SequentialPass(fs[k], base, prev, sc)

\* C10: whatever the number of workers and the order in which results reach
\* the merge loop, each completed pass and the final canvas hold exactly the
\* pixels of the one-thread, in-order evaluation of the same filters.
C10_IndependentOfWorkersAndOrder ==
    /\ (pc = "idle" /\ cur_pass > 0) =>
          log.last_data = SequentialRun(filters, cur_pass, swap_chain)
    /\ (pc = "finished") =>
          canvases[output].data = SequentialRun(filters, Len(filters), swap_chain)

\* A run of three passes over two texels with two workers has finished.
C10_Witness ==
    pc = "finished" /\ n_threads = 2 /\ Total = 2 /\ cur_pass = 3

\* C11: a canvas changes only in a step of the driving thread's merge loop
\* (never in a task's step), only the render target changes, never the
\* previous canvas, and only when no task of the pass is executing or
\* waiting any more.
C11_WritesOnlyAfterDrain ==
    [][\A id \in 1..Len(canvases) :
          (canvases'[id] # canvases[id]) =>
              /\ pc = "pass"
              /\ id = render_target
              /\ id # previous
              /\ running = {}
              /\ running' = {}
              /\ Started = Positions
              /\ log'.writes = log.writes + 1
              /\ log'.applies = log.applies
      ]_vars

\* The merge loop of a later pass has written one of two texels.
C11_Witness ==
    /\ pc = "pass"
    /\ previous # None
    /\ n_threads = 2
    /\ Cardinality(merged) = 1
    /\ canvases[render_target].data # [i \in 1..Total |-> 0]

\* The Function instances of the pass: those in the queue and those borrowed
\* by running tasks.
QueuedIds == {funcs[i].id : i \in 1..Len(funcs)}
BorrowedIds == {t.func.id : t \in running}

\* C12: during every pass the Function pool holds exactly n_threads
\* instances, each either in the queue or borrowed by exactly one running
\* task (queued + borrowed = n_threads, no instance twice), and no pop from
\* the queue and no push back to it has failed.
C12_FunctionPoolBalanced ==
    /\ log.fault \notin {"pop", "push"}
    /\ pc = "pass" =>
          /\ Len(funcs) + Cardinality(running) = n_threads
          /\ Cardinality(QueuedIds) = Len(funcs)
          /\ Cardinality(BorrowedIds) = Cardinality(running)
          /\ QueuedIds \cap BorrowedIds = {}
          /\ QueuedIds \cup BorrowedIds = 1..n_threads

\* Two tasks run at once, each with its own instance, and the queue is empty.
C12_Witness ==
    /\ pc = "pass"
    /\ n_threads = 2
    /\ Cardinality(running) = 2
    /\ BorrowedIds = {1, 2}
    /\ funcs = <<>>
    /\ previous # None

\* C13: where next_pass reclaims the previous canvas the driving thread is
\* its only owner, so Arc::try_unwrap has never failed.
C13_UniqueOwnerAtReclaim ==
    /\ log.fault # "try_unwrap"
    /\ (pc = "pass" /\ submitted = Total /\ merged = Positions /\ previous # None)
          => StrongCount(previous, funcs, running, TaskHandles) = 1

\* A pass whose Functions all shared the previous canvas has given it back.
C13_Witness ==
    /\ pc = "idle"
    /\ log.unwrapped > 0
    /\ n_threads = 2
    /\ cur_pass > 1
    /\ filters[cur_pass] \in {"brightness", "gaussian", "greyscale"}

\* Some result of the pass in progress carries a texel of another format
\* than the render target's.
Mismatching ==
    \/ log.dropped > 0
    \/ \E r \in results : r.texel.format # canvases[render_target].format

\* C15: a pass with results of a mismatching format goes on and ends like
\* any other: no error, the pass counter one higher, both canvases back in
\* the swap chain; each merge step writes its texel if the formats agree and
\* leaves the render target as it was otherwise.
C15_MismatchDoesNotFailPass ==
    [][(pc = "pass" /\ Mismatching) =>
          /\ pc' \in {"pass", "idle"}
          /\ err' = ""
          /\ (log'.writes # log.writes) =>
                \E r \in results \ results' :
                    canvases'[render_target] =
                        IF r.texel.format = canvases[render_target].format
                        THEN [canvases[render_target] EXCEPT !.data[r.pos + 1] = r.texel.v]
                        ELSE canvases[render_target]
          /\ (pc' = "idle") =>
                /\ cur_pass' = cur_pass + 1
                /\ render_target \in {swap_chain'.chain[i] : i \in 1..SWAP_CHAIN_LEN}
                /\ previous # None =>
                      previous \in {swap_chain'.chain[i] : i \in 1..SWAP_CHAIN_LEN}
      ]_vars

\* A pass whose every texel was refused has ended normally.
C15_Witness ==
    /\ pc \in {"idle", "finish", "finished"}
    /\ log.dropped = Total
    /\ Total = 2
    /\ log.writes = Total
    /\ cur_pass = log.pass + 1
    /\ err = ""

\* C14: a set with a texel of another format than the canvas's, at a position
\* in range, returns false, does not panic and leaves every byte of the
\* buffer as it was (compiler and legacy crate).
C14_MismatchedSetIsNoOp ==
    (tex.op \in {"set", "panic"} /\ InRange(tex, tex.pos)
        /\ tex.texel.format # tex.format)
    => /\ tex.op = "set"
       /\ tex.ok = FALSE
       /\ tex.data = tex.before

\* A buffer that holds a texel has refused a texel of another format.
C14_Witness ==
    /\ tex.op = "set"
    /\ tex.texel.format # tex.format
    /\ InRange(tex, tex.pos)
    /\ ~tex.ok
    /\ \E i \in 1..Len(tex.data) : tex.data[i] # 0
    /\ tex.format = "LA8"
    /\ tex.texel.format = "L8"

\* C16: after a set that returned true, get at the same position returns the
\* texel that was set, channel by channel and bit by bit, and the bytes of
\* every other position are what they were.
C16_SetGetRoundTrip ==
    (tex.op = "set" /\ tex.ok)
    => /\ OutputTextureGet(tex, tex.pos) = Some(tex.texel)
       /\ LET o == IntOf(OffsetOf(tex, tex.pos).v)
          IN  \A i \in 1..Len(tex.data) :
                  (i <= o \/ i > o + TexelSize(tex.format))
                      => tex.data[i] = tex.before[i]

\* C17: whatever u32 width and height are requested, the canvases of the swap
\* chain get a width and a height that are each the smallest power of two
\* greater than or equal to the requested value.
C17_PowerOfTwoRounding ==
    (sizing.stage # "request")
    => /\ sizing.fault # "round"
       /\ IsPowerOfTwo(sizing.width)
       /\ IsPowerOfTwo(sizing.height)
       /\ U32Le(sizing.req_w, sizing.width)
       /\ U32Le(sizing.req_h, sizing.height)
       /\ \A p \in Pow2U32 :
             /\ U32Le(sizing.req_w, p) => U32Le(sizing.width, p)
             /\ U32Le(sizing.req_h, p) => U32Le(sizing.height, p)

\* The byte range of a position of the canvas lies inside its buffer.
RangeInside(o) ==
    LET end == U32Add(o.v, U32(TexelSize(sizing.format)))
    IN  ~o.overflow /\ ~end.overflow /\ U32Le(end.v, sizing.len)

\* The byte ranges of two positions do not overlap.
RangesDisjoint(o1, o2) ==
    LET size == U32(TexelSize(sizing.format))
        e1 == U32Add(o1.v, size)
        e2 == U32Add(o2.v, size)
    IN  \/ ~e1.overflow /\ U32Le(e1.v, o2.v)
        \/ ~e2.overflow /\ U32Le(e2.v, o1.v)

\* C18: the buffer of a canvas has exactly width * height * texel_size bytes;
\* base_offset is None exactly for a position out of range, and the byte
\* range of a position in range lies inside the buffer and apart from the
\* range of every other position.
C18_OffsetsInsideBuffer ==
    /\ sizing.fault \notin {"alloc", "offset"}
    /\ sizing.stage \in {"texture", "offset"} => sizing.exact
    /\ sizing.stage = "offset" =>
          /\ sizing.offset.some <=>
                (U32Lt(sizing.x, sizing.width) /\ U32Lt(sizing.y, sizing.height))
          /\ sizing.offset.some =>
                /\ RangeInside(sizing.offset)
                /\ \A x \in CoordSamples, y \in CoordSamples :
                      LET o == BaseOffset(sizing.width, sizing.height,
                                          sizing.format, x, y)
                      IN  (o.some /\ <<x, y>> # <<sizing.x, sizing.y>>)
                              => RangesDisjoint(sizing.offset, o)

\* The first filter of a list that declares something, 0 if none does.
FirstDeclaring(fs, Declares(_)) ==
    LET S == {i \in 1..Len(fs) : Declares(fs[i])}
    IN  IF S = {} THEN 0 ELSE CHOOSE i \in S : \A j \in S : i <= j

DeclaresSize(f) == GetTextureSize(f).some
DeclaresFormat(f) == GetTextureFormat(f).some

\* C19: each of width, height and format the caller left out is taken from
\* the first filter, in declaration order, that declares a size (resp. a
\* format), and is 256, 256, RGBA8 when no filter declares one.
C19_FirstDeclaringFilterWins ==
    (negotiation.stage # "config")
    => LET fs == negotiation.filters
           s == FirstDeclaring(fs, DeclaresSize)
           f == FirstDeclaring(fs, DeclaresFormat)
       IN  /\ ~negotiation.config.width.some =>
                 negotiation.chain.width =
                     IF s = 0 THEN 256 ELSE GetTextureSize(fs[s]).v[1]
           /\ ~negotiation.config.height.some =>
                 negotiation.chain.height =
                     IF s = 0 THEN 256 ELSE GetTextureSize(fs[s]).v[2]
           /\ ~negotiation.config.format.some =>
                 negotiation.chain.format =
                     IF f = 0 THEN "RGBA8" ELSE GetTextureFormat(fs[f]).v

\* Nothing was specified, and two filters declare different sizes and formats.
C19_Witness ==
    /\ negotiation.stage = "negotiated"
    /\ ~negotiation.config.width.some
    /\ ~negotiation.config.height.some
    /\ ~negotiation.config.format.some
    /\ Len(negotiation.filters) = 3
    /\ negotiation.filters[1].kind = "noise"
    /\ negotiation.filters[2].kind = "greyscale"
    /\ negotiation.filters[2].alpha
    /\ negotiation.filters[3].kind = "resample"
    /\ negotiation.filters[3].base.format = "L8"
    /\ negotiation.chain = [width |-> 8, height |-> 4, format |-> "LA8"]

\* C20: a width, height or format the caller specified reaches SwapChain::new
\* as specified, whatever the filters declare.
C20_ExplicitConfigKept ==
    (negotiation.stage # "config")
    => /\ negotiation.config.width.some =>
              negotiation.chain.width = negotiation.config.width.v
       /\ negotiation.config.height.some =>
              negotiation.chain.height = negotiation.config.height.v
       /\ negotiation.config.format.some =>
              negotiation.chain.format = negotiation.config.format.v

\* Only the width was specified, and a filter declares another size: the
\* width is the caller's, the height the filter's.
C20_Witness ==
    /\ negotiation.stage = "negotiated"
    /\ negotiation.config.width = Some(64)
    /\ ~negotiation.config.height.some
    /\ negotiation.config.format = Some("F32")
    /\ \E i \in 1..Len(negotiation.filters) : negotiation.filters[i].kind = "resample"
    /\ negotiation.chain.width = 64
    /\ negotiation.chain.height \in {2, 4}
    /\ negotiation.chain.format = "F32"

\* C21: every texel a Function returns from apply has the format of the
\* frame buffer the Function was built for by a new_function that returned
\* Ok (the pass's configured format), whatever the filter.
C21_ApplyReturnsPassFormat ==
    /\ \A t \in running :
          Apply(t.func, t.pos, canvases).format = FrameBuffer(previous, swap_chain).format
    /\ \A r \in results : r.texel.format = swap_chain.format

\* The previous canvas of the frame buffer the last new_function was given
\* (None in a first pass, or before any call).
LastPrevious == IF log.fbs = <<>> THEN None ELSE log.fbs[Len(log.fbs)]

\* C22: when next_pass has returned the error of a greyscale new_function
\* whose frame buffer had a previous canvas of format RGBAF32, the error is
\* UnsupportedPreviousFormat and no task was submitted to the pool.
C22_GreyscaleRejectsFloatPrevious ==
    (/\ pc = "returned_err"
     /\ filters[cur_pass + 1] = "greyscale"
     /\ LastPrevious # None
     /\ canvases[LastPrevious].format = "RGBAF32") =>
        /\ err = "UnsupportedPreviousFormat"
        /\ submitted = 0
        /\ Started = {}

\* The filters whose Function reads the previous canvas.
HistoryFilters == {"brightness", "gaussian", "greyscale"}

\* C25: a first pass whose filter reads the previous canvas never gets as far
\* as its tasks and returns MissingPrevious, whatever the size and format of
\* the canvas; a pass of noise or resample never returns MissingPrevious.
C25_MissingPreviousInFirstPass ==
    /\ (InPass /\ cur_pass = 0 /\ filters[1] \in HistoryFilters) =>
           pc = "new_function" /\ funcs = <<>> /\ submitted = 0
    /\ (pc = "returned_err" /\ cur_pass = 0 /\ filters[1] \in HistoryFilters) =>
           err = "MissingPrevious"
    /\ (pc = "returned_err" /\ filters[cur_pass + 1] \notin HistoryFilters) =>
           err # "MissingPrevious"

\* A first pass of greyscale on a canvas of a format greyscale cannot write
\* has returned MissingPrevious.
C25_Witness ==
    /\ pc = "returned_err"
    /\ cur_pass = 0
    /\ filters[1] = "greyscale"
    /\ swap_chain.format = "RGBAF32"
    /\ swap_chain.width * swap_chain.height = MaxTexels
    /\ err = "MissingPrevious"

\* C24: resample's get_texture_size is the size of its base texture, and for
\* a frame buffer of the base texture's size and format new_function succeeds
\* and apply(pos) is the base texture's texel at pos, unchanged.
C24_ResampleIdentityAtEqualSize ==
    (stock.kind = "resample" /\ stock.stage # "filter") =>
        /\ stock.size = Some(<<stock.source.width, stock.source.height>>)
        /\ (/\ stock.fb.width = stock.source.width
            /\ stock.fb.height = stock.source.height
            /\ stock.fb.format = stock.source.format) =>
               /\ stock.result = "Ok"
               /\ stock.stage = "texel" =>
                     stock.out = stock.source.data[stock.pos[2] * stock.source.width
                                                   + stock.pos[1] + 1]

\* The last texel of a two-channel base texture has been copied to a canvas
\* of the same size and format.
C24_Witness ==
    /\ stock.kind = "resample"
    /\ stock.stage = "texel"
    /\ stock.source.format = "LA8"
    /\ stock.fb = [width |-> 2, height |-> 1, format |-> "LA8"]
    /\ stock.source.width = 2
    /\ stock.pos = <<1, 0>>
    /\ stock.out = MkTexel("LA8", <<2, 77>>, <<>>)

\* The relation as the specification words it: the 8-bit formats feed one
\* another, a float format feeds itself only.
CanFeed(a, b) ==
    \/ a \in {"L8", "LA8", "RGBA8"} /\ b \in {"L8", "LA8", "RGBA8"}
    \/ a = "RGBAF32" /\ b = "RGBAF32"
    \/ a = "F32" /\ b = "F32"

\* C26: check_format_compatible holds exactly for the pairs of 8-bit formats,
\* RGBAF32 with itself and F32 with itself, and resample's new_function
\* returns UnsupportedFormat exactly when the base texture's format cannot
\* feed the frame buffer's (and succeeds otherwise).
C26_FormatCompatibility ==
    /\ (stock.kind = "formats" /\ stock.stage = "checked") =>
          (stock.compatible <=> CanFeed(stock.source.format, stock.fb.format))
    /\ (stock.kind = "resample" /\ stock.stage # "filter") =>
          /\ stock.result = "UnsupportedFormat" <=>
                ~CanFeed(stock.source.format, stock.fb.format)
          /\ stock.result \in {"Ok", "UnsupportedFormat"}

\* A resample of a one-channel base texture was given a Function for an RGBA8
\* frame buffer.
C26_Witness ==
    /\ stock.kind = "resample"
    /\ stock.stage = "function"
    /\ stock.source.format = "L8"
    /\ stock.fb.format = "RGBA8"
    /\ stock.result = "Ok"

\* C27: whenever a Function of greyscale or resample has turned an RGBA8
\* texel (R, G, B, A) into an L8 or LA8 texel, the first channel is the luma
\* 0.257 R + 0.504 G + 0.098 B + 16 clamped to 0..255 and truncated, and the
\* second channel of an LA8 texel is A.
C27_LumaConversion ==
    (/\ stock.stage = "texel"
     /\ stock.src.format = "RGBA8"
     /\ stock.out.format \in {"L8", "LA8"}) =>
        /\ stock.out.u8[1] = LumaF64(stock.src.u8[1], stock.src.u8[2], stock.src.u8[3])
        /\ stock.out.format = "LA8" => stock.out.u8[2] = stock.src.u8[4]

\* C23: the run of [noise, brightness, greyscale] on the L8 canvas negotiated
\* for it (greyscale without alpha is the only filter that declares a format)
\* fails in no pass, and the canvas finish() returns is L8 and holds at every
\* position the luma of the brightened noise.
C23_NoiseBrightnessGreyscale ==
    (filters = <<"noise", "brightness", "greyscale">> /\ swap_chain.format = "L8") =>
        /\ pc \notin {"returned_err", "run_err", "panic"}
        /\ pc = "finished" =>
              /\ canvases[output].format = "L8"
              /\ \A p \in Positions :
                    canvases[output].data[p + 1] = Luma(Brighten(NoiseValue(p)))

\* The variant the priority gives a value: a file is a Texture, else the first
\* of Int, Float, Vector2/3/4 the text parses as, else String.
ByPriority(v) ==
    IF v.file THEN "Texture"
    ELSE IF ParsesInt(v.text) THEN "Int"
    ELSE IF ParsesFloat(v.text) THEN "Float"
    ELSE IF \E n \in {2, 3, 4} : VectorOf(v.text) = Some(n)
         THEN (CHOOSE t \in {<<2, "Vector2">>, <<3, "Vector3">>, <<4, "Vector4">>} :
                  VectorOf(v.text) = Some(t[1]))[2]
    ELSE "String"

\* The parameters parse was given, and the content it must have built: for
\* every key the variant of the last value given for it.
ParsedList == parameter.params.v

ContentByPriority ==
    /\ DOMAIN parameter.content = {ParsedList[i].key : i \in 1..Len(ParsedList)}
    /\ \A i \in 1..Len(ParsedList) :
          (\A j \in (i + 1)..Len(ParsedList) : ParsedList[j].key # ParsedList[i].key) =>
              parameter.content[ParsedList[i].key].type = ByPriority(ParsedList[i].value)

\* A file that does not load as an image.
BadImage(v) == v.file /\ ~v.image

\* A value that is neither a file nor UTF-8.
BadText(v) == ~v.file /\ ~v.utf8

\* C28 as stated: parse fails only for a file that does not load (an Image
\* error); every other list of parameters is parsed, each value to the first
\* of Texture (file), Int, Float, Vector2/3/4 it is, and to String otherwise.
C28_ParsePriority_asStated ==
    (parameter.stage = "parsed" /\ parameter.params.some) =>
        IF \E i \in 1..Len(ParsedList) : BadImage(ParsedList[i].value)
        THEN ~parameter.ok /\ parameter.err = "Image"
        ELSE parameter.ok /\ ContentByPriority

\* C28, amended: parse fails with an Image error or an InvalidUtf8 error when
\* the first value it cannot take is a file that does not load or a value
\* that is neither a file nor UTF-8; every other list is parsed, each value
\* to the first of Texture (file), Int, Float, Vector2/3/4 it is, and to
\* String otherwise.  No parameters at all give the empty map.
C28_ParsePriority ==
    parameter.stage = "parsed" =>
        IF ~parameter.params.some
        THEN parameter.ok /\ parameter.content = <<>>
        ELSE LET bad == {i \in 1..Len(ParsedList) :
                            BadImage(ParsedList[i].value) \/ BadText(ParsedList[i].value)}
             IN  IF bad = {} THEN parameter.ok /\ ContentByPriority
                 ELSE LET first == CHOOSE i \in bad : \A j \in bad : i <= j
                      IN  /\ ~parameter.ok
                          /\ parameter.err = IF BadImage(ParsedList[first].value)
                                             THEN "Image" ELSE "InvalidUtf8"

\* A value of three floats with blanks around one of them was parsed to a
\* Vector3.
C28_Witness ==
    /\ parameter.stage = "parsed"
    /\ parameter.ok
    /\ parameter.params.some
    /\ Len(ParsedList) = 1
    /\ ParsedList[1].value.text = <<"1", ".", ",", " ", "1", " ", ",", "-", "7">>
    /\ DOMAIN parameter.content = {"base"}
    /\ parameter.content["base"].type = "Vector3"

\* The keys of the parameters of the last add_filter call.
GivenKeys ==
    IF compiler.params.some
    THEN {compiler.params.v[i].key : i \in 1..Len(compiler.params.v)}
    ELSE {}

\* What can be said of the Compiler after a call of add_filter ('after'),
\* given its filter list before the call.
AddFilterOutcome(before, after) ==
    \/ /\ after.result.ok
       /\ after.filters = before \o <<[kind |-> after.name]>>
       /\ after.name \in FilterKinds
    \/ /\ ~after.result.ok
       /\ after.filters = before
       /\ \/ after.result.error = "Parameters"
          \/ after.result.error = "Unknown" /\ after.name \notin FilterKinds
          \/ /\ after.result.error = "Filter"
             /\ after.result.detail \in {"MissingParameter", "InvalidParameter"}
             /\ after.name \in FilterKinds

\* C29: every call of add_filter is made on a Compiler no pass of which has
\* run, and either returns Ok with exactly one filter, of the name asked for,
\* appended at the end of the list, or returns an error (Parameters; Unknown
\* for a name outside the catalog; Filter for a missing or invalid parameter)
\* with the list as it was.  A name outside the catalog is never accepted and
\* resample without 'base' is refused with MissingParameter(base).
C29_AddFilterAppendsOrFails ==
    [][compiler'.adds # compiler.adds =>
          /\ compiler.stage = "building"
          /\ compiler'.stage = "building"
          /\ AddFilterOutcome(compiler.filters, compiler')
          /\ compiler'.name \notin FilterKinds => ~compiler'.result.ok
          /\ (compiler'.name = "resample" /\ "base" \notin GivenKeys') =>
                compiler'.result = AddErr("Filter", "MissingParameter", "base")]_vars

\* resample was asked for without its base texture after two filters had been
\* accepted: the call failed and the two filters are still the list.
C29_Witness ==
    /\ compiler.stage = "building"
    /\ compiler.name = "resample"
    /\ compiler.result = AddErr("Filter", "MissingParameter", "base")
    /\ compiler.filters = <<[kind |-> "noise"], [kind |-> "brightness"]>>

\* The positions whose task has run to its end in the current pass.
Finished == Started \ {t.pos : t \in running}

\* C30: with a progress observer, in every pass whose Functions were all
\* built, on_start_render_pass has been called exactly once, with the pass
\* index and width * height, before any task is submitted; on_start_texel has
\* been called exactly once for each position whose task has started (before
\* its apply) and for no other, on_end_texel exactly once for each position
\* whose apply is done; a completed pass has had both for every position.
\* Without an observer nothing is called, and with or without it a completed
\* pass leaves the pixels of the one-thread evaluation of the filters.
C30_ObserverCalls ==
    /\ (pc = "new_function") =>
          log.start_pass = 0 /\ submitted = 0 /\ log.start_texel = 0
    /\ (has_delegate /\ pc = "pass") =>
          /\ log.start_pass = 1
          /\ log.pass_args = <<cur_pass, swap_chain.width * swap_chain.height>>
          /\ log.texels = Started
          /\ log.start_texel = Cardinality(Started)
          /\ log.end_texel = Cardinality(Finished)
          /\ log.applies = log.end_texel
    /\ (has_delegate /\ pc = "idle" /\ cur_pass > 0) =>
          /\ log.start_pass = 1
          /\ log.pass_args = <<cur_pass - 1, Total>>
          /\ log.texels = Positions
          /\ log.start_texel = Total
          /\ log.end_texel = Total
    /\ ~has_delegate =>
          /\ log.start_pass = 0 /\ log.start_texel = 0 /\ log.end_texel = 0
          /\ log.pass_args = <<>> /\ log.texels = {}
    /\ (pc = "idle" /\ cur_pass > 0) =>
          log.last_data = SequentialRun(filters, cur_pass, swap_chain)

\* The second pass of an observed run over two texels is under way: one
\* position is done, the other has started and is not done.
C30_Witness ==
    /\ has_delegate
    /\ pc = "pass"
    /\ cur_pass = 1
    /\ Total = 2
    /\ Cardinality(running) = 1
    /\ log.start_texel = 2
    /\ log.end_texel = 1
    /\ log.pass_args = <<1, 2>>

\* The texel the Function of the last completed pass returns for a position.
LastApply(p) ==
    Apply([kind |-> filters[cur_pass], format |-> swap_chain.format,
           buffer |-> LastPrevious, id |-> 0], p, canvases)

Shape(c) == <<c.width, c.height, c.format>>

\* C32: in every pass i > 0 the previous canvas and the render target both
\* have the width, height and format of the swap chain; no pass ever returns
\* UnsupportedPreviousSize; and a pass of greyscale never gets a Function
\* (it returns an error), so no completed pass is a greyscale pass.
C32_OneShapePerRun ==
    /\ (InPass /\ cur_pass > 0) =>
          /\ Shape(canvases[previous]) = Shape(canvases[render_target])
          /\ Shape(canvases[render_target]) =
                <<swap_chain.width, swap_chain.height, swap_chain.format>>
    /\ err # "UnsupportedPreviousSize"
    /\ (InPass /\ filters[cur_pass + 1] = "greyscale") =>
          pc = "new_function" /\ funcs = <<>>
    /\ (pc = "returned_err" /\ filters[cur_pass + 1] = "greyscale") =>
          err \in {"MissingPrevious", "UnsupportedFormat", "UnsupportedPreviousFormat"}
    /\ (cur_pass > 0 /\ pc \in {"idle", "new_function", "pass", "finished"}) =>
          filters[cur_pass] # "greyscale"

\* A greyscale pass on an L8 canvas, whose previous canvas is L8 too, has
\* returned UnsupportedPreviousFormat.
C32_Witness ==
    /\ pc = "returned_err"
    /\ cur_pass = 1
    /\ filters[2] = "greyscale"
    /\ swap_chain.format = "L8"
    /\ err = "UnsupportedPreviousFormat"

\* The canvases the swap chain holds.
Pooled == {swap_chain.chain[i] : i \in 1..SWAP_CHAIN_LEN} \ {None}

\* C33: as long as every pass of a run has succeeded, no put_back has stored
\* over a canvas (every canvas ever allocated is still alive, and between two
\* passes all of them are in the swap chain); after pass 0 only the second
\* slot (slot 1) is occupied, after every later pass both slots are, and the
\* second slot holds the last render target; once next or put_back has been
\* called the swap chain's index is 1 or 2.
C33_PutBackNeverOverwrites ==
    /\ (pc \in {"idle", "new_function", "pass"}) =>
          live = 1..Len(canvases)
    /\ (pc = "idle" /\ cur_pass >= 1) =>
          /\ Pooled = live
          /\ swap_chain.chain[2] = log.last_target
          /\ log.released = log.acquired
          /\ (swap_chain.chain[1] = None) <=> (cur_pass = 1)
    /\ (log.acquired > 0) => swap_chain.index \in 1..SWAP_CHAIN_LEN

\* Three passes have succeeded: both slots are occupied, by two canvases that
\* were each put back more than once.
C33_Witness ==
    /\ pc = "idle"
    /\ cur_pass = 3
    /\ Cardinality(Pooled) = 2
    /\ log.released = 5

\* C34: when next_pass has returned a FrameBufferError the pass counter is
\* the one the call started with and still indexes a filter of the list, so a
\* further next_pass call attempts the same pass; the swap chain still has
\* the width, height and format of the canvases it allocated before.
C34_ErrorLeavesPipelineUnchanged ==
    pc = "returned_err" =>
        /\ err # ""
        /\ cur_pass = log.pass
        /\ cur_pass < Len(filters)
        /\ \A i \in 1..Len(log.before) :
              Shape(log.before[i]) =
                  <<swap_chain.width, swap_chain.height, swap_chain.format>>

\* A second next_pass call has failed in the pass in which the first one
\* failed, after a pass that succeeded.
C34_Witness ==
    /\ pc = "returned_err"
    /\ calls = 3
    /\ cur_pass = 1
    /\ log.pass = 1
    /\ log.acquired = 5

\* The pixels the render target of the k-th pass of a run (k = 1 for pass 0)
\* holds when that pass starts: zeros on a canvas allocated for the pass
\* (passes 0 and 1), and later what pass k-2 left on it.
Held(k) ==
    IF k <= 2
    THEN [i \in 1..Total |-> 0]
    ELSE SequentialRun(filters, k - 2, swap_chain)

\* The texel the Function of the pass under way returns for a position.
CurrentApply(p) ==
    Apply([kind |-> filters[cur_pass + 1], format |-> swap_chain.format,
           buffer |-> previous, id |-> 0], p, canvases)

\* C35: the canvas a pass takes as its render target comes as it was put back
\* (what pass i-2 left on it for i >= 2, zeros when it is allocated for the
\* pass), and a pixel whose write is dropped for its format keeps that value,
\* during the pass and after it.
C35_RecycledCanvasKeepsBytes ==
    /\ pc = "pass" =>
          /\ log.before[render_target].data = Held(cur_pass + 1)
          /\ \A p \in merged :
                CurrentApply(p).format # swap_chain.format =>
                    canvases[render_target].data[p + 1] = Held(cur_pass + 1)[p + 1]
    /\ (pc = "idle" /\ cur_pass > 0) =>
          \A p \in Positions :
              LastApply(p).format # swap_chain.format =>
                  log.last_data[p + 1] = Held(cur_pass)[p + 1]

\* The third pass has dropped every write and its render target still shows a
\* value of the first pass.
C35_Witness ==
    /\ pc = "idle"
    /\ cur_pass = 3
    /\ log.dropped = Total
    /\ log.last_data[1] # 0
    /\ log.last_data = Held(3)

\* What ParameterMap::parse makes of the parameters of the last add_filter.
LastParsed == ParameterMapParse(compiler.params)

\* C36: no parameter of a parsed map is a Bool; so an add_filter of
\* "greyscale" whose parameters parse and hold an "alpha" fails with
\* InvalidParameter("alpha"), and an add_filter of "brightness" whose
\* "brightness" is read as an Int fails with InvalidParameter("brightness").
C36_NoBoolParameter ==
    /\ LastParsed.ok =>
          \A k \in DOMAIN LastParsed.content : LastParsed.content[k].type # "Bool"
    /\ (compiler.name = "greyscale" /\ LastParsed.ok
           /\ MapGet(LastParsed.content, "alpha").some) =>
          compiler.result = AddErr("Filter", "InvalidParameter", "alpha")
    /\ (compiler.name = "brightness" /\ LastParsed.ok
           /\ MapGet(LastParsed.content, "brightness").some
           /\ MapGet(LastParsed.content, "brightness").v.type = "Int") =>
          compiler.result = AddErr("Filter", "InvalidParameter", "brightness")

\* A greyscale with alpha=false has been refused after a brightness was added.
C36_Witness ==
    /\ compiler.name = "greyscale"
    /\ compiler.params = Some(<<[key |-> "alpha", value |-> Text(<<"false">>)]>>)
    /\ compiler.result = AddErr("Filter", "InvalidParameter", "alpha")
    /\ Len(compiler.filters) = 1
    /\ compiler.filters[1].kind = "brightness"

\* C37: a run with no filter makes no pass (no canvas is taken, the pass
\* counter stays 0) and its call of finish stops at the assertion: the run
\* neither returns an error nor a canvas.
C37_EmptyRunPanics ==
    filters = <<>> =>
        /\ cur_pass = 0
        /\ iter = 0
        /\ log.acquired = 0
        /\ canvases = <<>>
        /\ pc \in {"idle", "panic"}
        /\ pc = "panic" => (log.call = "finish" /\ err = "" /\ output = None)

\* The run of an empty filter list has panicked in finish.
C37_Witness ==
    /\ filters = <<>>
    /\ pc = "panic"
    /\ log.call = "finish"
    /\ cur_pass = 0

\* The script engines that exist in the pass under way: those in the queue
\* and those a running task holds.
Engines == Len(funcs) + Cardinality(running)

\* C38: in the legacy pipeline the engines in existence never outnumber the
\* workers, the queue never holds more than its capacity n_threads and no
\* push into it has failed, whether or not a script has failed; and a step
\* adds an engine only if it finds the queue empty.
C38_EngineQueueNeverOverflows ==
    /\ [](/\ Engines <= n_threads
          /\ Len(funcs) <= n_threads
          /\ log.fault # "push")
    /\ [][(pc = "pass" /\ pc' = "pass" /\ Engines' > Engines) => funcs = <<>>]_vars

\* Two workers have each built an engine and pushed it back, one of them
\* after its script failed: the queue is full.
C38_Witness ==
    /\ pc = "pass"
    /\ n_threads = 2
    /\ Len(funcs) = 2
    /\ running = {}
    /\ \E r \in results : ~r.ok
    /\ \E r \in results : r.ok

====
